---- MODULE Spec2Model ----
(***************************************************************************)
(* Grid order reconciliation engine of improved_gridbot.py                 *)
(* (class ImprovedGridBot) together with the exchange it polls.            *)
(*                                                                         *)
(* Numbers.  The program computes with floats; the model computes with     *)
(* exact integers in fixed units and compares quotients by                 *)
(* cross-multiplication, so a comparison a/b < c is written a < b*c.       *)
(*   ETH/USD : price in cents (precision 2), volume in 0.001 ETH,          *)
(*             ZUSD amounts in 1e-5 USD (= volume unit * price unit),      *)
(*             XETH amounts in 0.001 ETH.                                  *)
(*   XRP/BTC : price in 1e-5 BTC, volume in 0.01 XRP (volume_precision 2), *)
(*             XXBT amounts in 1e-7 BTC (= volume unit * price unit),      *)
(*             XXRP amounts in 0.01 XRP, the BTC/USD price in 100 USD,     *)
(*             order values in 1e-5 USD.                                   *)
(* grid_interval is kept in tenths of a percent (1.5% = 15, 2.5% = 25).    *)
(* The 95% safety margin is the fraction 19/20.                            *)
(***************************************************************************)
EXTENDS Integers, Sequences, FiniteSets, Bags, TLC

(***************************************************************************)
(* Bounds of the model.                                                    *)
(***************************************************************************)
\* max_orders_per_side of both pairs (20 and 18 in TRADING_PAIRS)
MaxOrdersPerSide == 3
\* min_orders_per_side of both pairs (4 and 3 in TRADING_PAIRS)
MinOrdersPerSide == 1
\* iterations of the main loop that are explored
MaxTicks == 3
\* events of the outside world (fills, price moves, foreign orders, waits)
MaxEvents == 2
\* handler runs in which a call to the exchange fails
MaxFaults == 1

(***************************************************************************)
(* Program constants.                                                      *)
(***************************************************************************)
ORDER_CHECK_INTERVAL == 10
\* 90000.0 USD per BTC, in units of 100 USD
FALLBACK_BTC_USD == 900
\* "BTC is typically 15-20x ETH price"
ETH_TO_BTC_FACTOR == 18

Pairs == <<"XRP/BTC", "ETH/USD">>
PairSet == {"XRP/BTC", "ETH/USD"}
Assets == {"ZUSD", "XETH", "XXBT", "XXRP"}
Sides == {"buy", "sell"}

\* the exchange-native identifiers, as sequences of characters
S_XETHZUSD == <<"X","E","T","H","Z","U","S","D">>
S_XXRPXXBT == <<"X","X","R","P","X","X","B","T">>
S_XXBTZUSD == <<"X","X","B","T","Z","U","S","D">>

TRADING_PAIRS(pair) ==
    IF pair = "XRP/BTC"
    THEN [grid_interval |-> 25, min_order_size |-> 1000000,
          base_asset |-> "XXBT", quote_asset |-> "XXRP",
          kraken_pair |-> S_XXRPXXBT,
          max_orders_per_side |-> MaxOrdersPerSide,
          min_orders_per_side |-> MinOrdersPerSide,
          dynamic_grid_reposition |-> FALSE,
          grid_reposition_threshold |-> 5,
          grid_reposition_cooldown |-> 300]
    ELSE [grid_interval |-> 15, min_order_size |-> 5,
          base_asset |-> "ZUSD", quote_asset |-> "XETH",
          kraken_pair |-> S_XETHZUSD,
          max_orders_per_side |-> MaxOrdersPerSide,
          min_orders_per_side |-> MinOrdersPerSide,
          dynamic_grid_reposition |-> TRUE,
          grid_reposition_threshold |-> 5,
          grid_reposition_cooldown |-> 300]

(***************************************************************************)
(* Arithmetic.                                                             *)
(***************************************************************************)
Abs(x) == IF x < 0 THEN -x ELSE x
Min(a, b) == IF a <= b THEN a ELSE b
Max(a, b) == IF a >= b THEN a ELSE b

\* int(num / den), truncating toward zero; 0 when den = 0 ("if ... > 0 else 0")
IntDiv(num, den) ==
    IF den <= 0 THEN 0
    ELSE IF num >= 0 THEN num \div den ELSE -((-num) \div den)

\* round(num / den, precision) in the unit of that precision: to the nearest
\* integer, a tie going to the even one (Python 3 round)
PyRound(num, den) ==
    LET q == num \div den
        r == num % den
    IN  IF 2 * r < den THEN q
        ELSE IF 2 * r > den THEN q + 1
        ELSE IF q % 2 = 0 THEN q ELSE q + 1

round_price(num, den) == PyRound(num, den)
round_volume(num, den) == PyRound(num, den)

(***************************************************************************)
(* Pair strings.                                                           *)
(***************************************************************************)
UpperChar(c) ==
    CASE c = "e" -> "E" [] c = "t" -> "T" [] c = "h" -> "H"
      [] c = "u" -> "U" [] c = "s" -> "S" [] c = "d" -> "D"
      [] c = "x" -> "X" [] c = "z" -> "Z" [] c = "r" -> "R"
      [] c = "p" -> "P" [] c = "b" -> "B" [] c = "c" -> "C"
      [] OTHER -> c
Upper(s) == [i \in 1..Len(s) |-> UpperChar(s[i])]

\* sub in s
Contains(sub, s) ==
    \E i \in 0..(Len(s) - Len(sub)) :
        \A j \in 1..Len(sub) : s[i + j] = sub[j]

\* ''.join(c for c in s if c not in 'XZ')
StripXZ(s) == SelectSeq(s, LAMBDA c : c \notin {"X", "Z"})

pair_mappings ==
    ( <<"E","T","H","U","S","D">>         :> S_XETHZUSD ) @@
    ( <<"E","T","H","/","U","S","D">>     :> S_XETHZUSD ) @@
    ( <<"X","E","T","H","U","S","D">>     :> S_XETHZUSD ) @@
    ( <<"E","T","H","Z","U","S","D">>     :> S_XETHZUSD ) @@
    ( <<"X","R","P","B","T","C">>         :> S_XXRPXXBT ) @@
    ( <<"X","R","P","/","B","T","C">>     :> S_XXRPXXBT ) @@
    ( <<"X","R","P","X","X","B","T">>     :> S_XXRPXXBT ) @@
    ( <<"X","X","R","P","X","B","T">>     :> S_XXRPXXBT ) @@
    ( <<"X","R","P","X","B","T">>         :> S_XXRPXXBT )

NoPair == "none"

\* a variant without the pass that removes X and Z
MatchesPairExactly(p, order_pair_upper, normalized_pair, normalized_order, stage) ==
    LET kraken_pair == TRADING_PAIRS(p).kraken_pair
    IN  /\ stage = 1
        /\ \/ Upper(kraken_pair) = Upper(normalized_pair)
           \/ Upper(kraken_pair) = order_pair_upper

MatchesPair(p, order_pair_upper, normalized_pair, normalized_order, stage) ==
    LET kraken_pair == TRADING_PAIRS(p).kraken_pair
    IN  IF stage = 1
        THEN \/ Upper(kraken_pair) = Upper(normalized_pair)
             \/ Upper(kraken_pair) = order_pair_upper
        ELSE StripXZ(Upper(kraken_pair)) = normalized_order

match_order_to_pair(order_pair) ==
    IF order_pair = <<>> THEN NoPair
    ELSE
      LET order_pair_upper == Upper(order_pair)
          normalized_pair ==
              IF order_pair_upper \in DOMAIN pair_mappings
              THEN pair_mappings[order_pair_upper] ELSE order_pair_upper
          normalized_order == StripXZ(order_pair_upper)
          M(p, stage) == MatchesPair(p, order_pair_upper, normalized_pair,
                                     normalized_order, stage)
      IN  IF M(Pairs[1], 1) THEN Pairs[1]
          ELSE IF M(Pairs[2], 1) THEN Pairs[2]
          ELSE IF M(Pairs[1], 2) THEN Pairs[1]
          ELSE IF M(Pairs[2], 2) THEN Pairs[2]
          ELSE NoPair

(***************************************************************************)
(* State.                                                                  *)
(***************************************************************************)
VARIABLES
    balances,               \* self.balances: totals of the last balance fetch
    available_balances,     \* self.available_balances: total - locked
    current_prices,         \* self.current_prices (0: pair absent)
    btc_usd_price,          \* self.btc_usd_price (0: None)
    grid_center_prices,     \* self.grid_center_prices (0: pair absent)
    last_reposition_time,   \* self.last_reposition_time (-1: pair absent)
    expected_order_counts,  \* self.expected_order_counts (NoCounts: absent)
    counts_file,            \* the content of .expected_order_counts.json
    open_orders,            \* the exchange: the bag of open orders
    ex_balances,            \* the exchange: custodial totals per asset
    market,                 \* the exchange: last trade price per ticker pair
    now,                    \* time.time(), in seconds
    pc,                     \* position of start_trading
    ticks,                  \* iterations of the main loop started
    events,                 \* events of the outside world so far
    grid_log,               \* per pair, what the last create_grid_orders did
    tick_log,               \* per pair, what the last tick did
    tick_info,              \* what the last tick saw and did, over all pairs
    changed,                \* the outside world moved since the last tick
    faults,                 \* handler runs in which a call failed, so far
    balance_fault,          \* the call that failed in the loop's last balance refresh
    trigger_in,             \* the input of a function that is checked on its own
    trigger_out,            \* its answer
    last_nonce              \* the module's last_nonce

vars == <<balances, available_balances, current_prices, btc_usd_price,
          grid_center_prices, last_reposition_time, expected_order_counts,
          counts_file, open_orders, ex_balances, market, now, pc, ticks,
          events, grid_log, tick_log, tick_info, changed, faults,
          balance_fault, trigger_in, trigger_out, last_nonce>>

NoCounts == [buy |-> -1, sell |-> -1]
NoPrice == 0
NoGridLog == [ok |-> FALSE, price |-> 0, intended_buy |-> 0, intended_sell |-> 0,
              placed_buy |-> 0, placed_sell |-> 0, calls |-> 0, requests |-> <<>>,
              base_balance |-> 0, quote_balance |-> 0, btc_usd |-> 0]

\* the bot and the exchange as one record, threaded through a handler; for
\* the pair the handler is at, attempts counts the place_limit_order calls
\* per side, calls the AddOrder requests, accepted the orders the exchange
\* opened for them per side, requests lists the place_limit_order calls
Machine ==
    [balances |-> balances, available_balances |-> available_balances,
     current_prices |-> current_prices, btc_usd_price |-> btc_usd_price,
     grid_center_prices |-> grid_center_prices,
     last_reposition_time |-> last_reposition_time,
     expected_order_counts |-> expected_order_counts,
     counts_file |-> counts_file, open_orders |-> open_orders,
     ex_balances |-> ex_balances, market |-> market, now |-> now,
     grid_log |-> grid_log, attempts |-> [buy |-> 0, sell |-> 0], calls |-> 0,
     accepted |-> [buy |-> 0, sell |-> 0], requests |-> <<>>, refetches |-> 0,
     raised |-> FALSE]

Install(s) ==
    /\ balances' = s.balances
    /\ available_balances' = s.available_balances
    /\ current_prices' = s.current_prices
    /\ btc_usd_price' = s.btc_usd_price
    /\ grid_center_prices' = s.grid_center_prices
    /\ last_reposition_time' = s.last_reposition_time
    /\ expected_order_counts' = s.expected_order_counts
    /\ counts_file' = s.counts_file
    /\ open_orders' = s.open_orders
    /\ ex_balances' = s.ex_balances
    /\ market' = s.market
    /\ now' = s.now
    /\ grid_log' = s.grid_log

(***************************************************************************)
(* The exchange.                                                           *)
(***************************************************************************)
\* the pair string the exchange echoes for an order of a configured pair
S_ETHUSD == <<"E","T","H","U","S","D">>
S_XRPXBT == <<"X","R","P","X","B","T">>
\* pair strings of orders the account holds on pairs that are not configured
S_XBTUSD == <<"X","B","T","U","S","D">>
S_ETHUSDT == <<"E","T","H","U","S","D","T">>

PairStrings == {S_ETHUSD, S_XRPXBT, S_XBTUSD, S_ETHUSDT}

EchoPair(pair) == IF pair = "ETH/USD" THEN S_ETHUSD ELSE S_XRPXBT

\* the asset an open order draws on, and how much of it
SpendAsset(o) ==
    IF o.pair = S_ETHUSD THEN (IF o.type = "buy" THEN "ZUSD" ELSE "XETH")
    ELSE IF o.pair = S_XRPXBT THEN (IF o.type = "buy" THEN "XXBT" ELSE "XXRP")
    ELSE IF o.pair = S_XBTUSD THEN (IF o.type = "buy" THEN "ZUSD" ELSE "XXBT")
    ELSE IF o.pair = S_ETHUSDT THEN (IF o.type = "buy" THEN "USDT" ELSE "XETH")
    ELSE "none"
SpendAmount(o) == IF o.type = "buy" THEN o.vol * o.price ELSE o.vol

RECURSIVE ExLockedIn(_, _, _)
ExLockedIn(S, book, asset) ==
    IF S = {} THEN 0
    ELSE LET o == CHOOSE x \in S : TRUE
         IN  (IF SpendAsset(o) = asset THEN CopiesIn(o, book) * SpendAmount(o) ELSE 0)
             + ExLockedIn(S \ {o}, book, asset)
ExLocked(book, asset) == ExLockedIn(BagToSet(book), book, asset)

\* the number of open orders of a configured pair on one side
RECURSIVE CountIn(_, _, _, _)
CountIn(S, book, pair, side) ==
    IF S = {} THEN 0
    ELSE LET o == CHOOSE x \in S : TRUE
         IN  (IF o.pair = EchoPair(pair) /\ o.type = side THEN CopiesIn(o, book) ELSE 0)
             + CountIn(S \ {o}, book, pair, side)
OpenCount(book, pair, side) == CountIn(BagToSet(book), book, pair, side)

\* AddOrder: the exchange opens the order unless the request fails or is
\* rejected, or the account cannot fund it
Rejected(f, call) == f.kind = "rejAll" \/ (f.kind = "rej" /\ f.k = call)
Funded(s, o) ==
    s.ex_balances[SpendAsset(o)] - ExLocked(s.open_orders, SpendAsset(o)) >= SpendAmount(o)
AddOrderResult(s, o, call, ok) ==
    [s |-> [s EXCEPT !.calls = call,
                     !.open_orders = IF ok THEN @ (+) SetToBag({o}) ELSE @,
                     !.accepted[o.type] = IF ok THEN @ + 1 ELSE @],
     id |-> ok]
AddOrder(s, f, o) ==
    AddOrderResult(s, o, s.calls + 1, ~Rejected(f, s.calls + 1) /\ Funded(s, o))

\* OpenOrders: {} when the call failed after its retries
get_open_orders(s, ok) == IF ok THEN s.open_orders ELSE EmptyBag

(***************************************************************************)
(* Balances and prices.                                                    *)
(***************************************************************************)
S_ETH == <<"E","T","H">>
S_USD == <<"U","S","D">>
S_XRP == <<"X","R","P">>
S_BTC == <<"B","T","C">>
S_XBT == <<"X","B","T">>

\* the asset get_account_balance locks for an order of a pair string and a
\* side ("none": skipped)
LedgerAssetOf(pair_str, type) ==
    LET pair_str_upper == Upper(pair_str)
        isEth == Contains(S_ETH, pair_str_upper) /\ Contains(S_USD, pair_str_upper)
        isXrp == Contains(S_XRP, pair_str_upper)
                 /\ (Contains(S_BTC, pair_str_upper) \/ Contains(S_XBT, pair_str_upper))
    IN  IF type = "buy"
        THEN (IF isEth THEN "ZUSD" ELSE IF isXrp THEN "XXBT" ELSE "none")
        ELSE IF type = "sell"
        THEN (IF isEth THEN "XETH" ELSE IF isXrp THEN "XXRP" ELSE "none")
        ELSE "none"
ledger_asset ==
    [pair_str \in PairStrings, type \in Sides |->
        LedgerAssetOf(pair_str, type)]
LedgerAsset(o) == ledger_asset[o.pair, o.type]

RECURSIVE LockedFundsIn(_, _, _)
LockedFundsIn(S, book, asset) ==
    IF S = {} THEN 0
    ELSE LET o == CHOOSE x \in S : TRUE
         IN  (IF LedgerAsset(o) = asset
              THEN CopiesIn(o, book) * (IF o.type = "buy" THEN o.vol * o.price ELSE o.vol)
              ELSE 0)
             + LockedFundsIn(S \ {o}, book, asset)
locked_funds(book, asset) == LockedFundsIn(BagToSet(book), book, asset)

\* get_account_balance returns False, and changes nothing, when the Balance
\* call failed; a failed OpenOrders call inside it reads as no open orders
BalanceOk(f) == f.kind # "bal"
get_account_balance(s, f) ==
    IF ~BalanceOk(f) THEN s
    ELSE LET orders == get_open_orders(s, f.kind # "balOpen")
         IN  [s EXCEPT !.balances = s.ex_balances,
                       !.available_balances =
                           [a \in Assets |-> s.ex_balances[a] - locked_funds(orders, a)]]

\* BTC/USD estimated from ETH/USD: eth_price * 18 (cents to units of 100 USD)
EstimateBtcUsd(eth_price) == (eth_price * ETH_TO_BTC_FACTOR) \div 10000

\* get_current_prices: the ticker may lack a pair it was asked for
TickerPairs == <<"XRP/BTC", "ETH/USD", "BTC/USD">>
PricesOk(f) == f.kind # "price"
get_current_prices(s, f) ==
    IF ~PricesOk(f) THEN s
    ELSE LET got(p) == ~(f.kind = "omit" /\ TickerPairs[f.k] = p)
             prices == [p \in PairSet |->
                          IF got(p) THEN s.market[p] ELSE s.current_prices[p]]
             btc == IF got("BTC/USD") THEN s.market["BTC/USD"] ELSE s.btc_usd_price
         IN  [s EXCEPT !.current_prices = prices,
                       !.btc_usd_price =
                           IF btc # 0 THEN btc
                           ELSE IF prices["ETH/USD"] # NoPrice
                                THEN EstimateBtcUsd(prices["ETH/USD"])
                                ELSE FALLBACK_BTC_USD]

(***************************************************************************)
(* OrderSizer.                                                             *)
(***************************************************************************)
Infeasible == [ok |-> FALSE, num |-> 0, den |-> 1]

\* self.btc_usd_price if self.btc_usd_price else 90000.0
BtcUsdOrFallback(s) == IF s.btc_usd_price # 0 THEN s.btc_usd_price ELSE FALLBACK_BTC_USD

\* a variant that checks the minimum against the whole share only
calculate_order_volume_single(s, pair, side, config, current_price, orders_count) ==
    LET base_balance == s.available_balances[config.base_asset]
        quote_balance == s.available_balances[config.quote_asset]
        min_order == config.min_order_size
        btc_usd == BtcUsdOrFallback(s)
    IN  IF pair = "ETH/USD"
        THEN IF side = "buy"
             THEN IF 19 * base_balance < 20 * current_price * min_order THEN Infeasible
                  ELSE [ok |-> TRUE, num |-> 19 * base_balance,
                        den |-> 20 * orders_count * current_price]
             ELSE IF 19 * quote_balance < 20 * min_order THEN Infeasible
                  ELSE [ok |-> TRUE, num |-> 19 * quote_balance,
                        den |-> 20 * orders_count]
        ELSE IF side = "buy"
             THEN IF 19 * base_balance * btc_usd < 20 * min_order THEN Infeasible
                  ELSE [ok |-> TRUE, num |-> 19 * base_balance,
                        den |-> 20 * orders_count * current_price]
             ELSE IF 19 * quote_balance * current_price * btc_usd < 20 * min_order
                  THEN Infeasible
                  ELSE [ok |-> TRUE, num |-> 19 * quote_balance,
                        den |-> 20 * orders_count]

\* the volume num/den of one of orders_count orders, or Infeasible (None)
calculate_order_volume(s, pair, side, config, current_price, orders_count) ==
    LET base_balance == s.available_balances[config.base_asset]
        quote_balance == s.available_balances[config.quote_asset]
        min_order == config.min_order_size
        btc_usd == BtcUsdOrFallback(s)
    IN  IF pair = "ETH/USD"
        THEN IF side = "buy"
             THEN \* available_usd < min_order_usd, then volume < min_order_eth
                  IF 19 * base_balance < 20 * current_price * min_order THEN Infeasible
                  ELSE IF 19 * base_balance < 20 * orders_count * current_price * min_order
                       THEN Infeasible
                  ELSE [ok |-> TRUE, num |-> 19 * base_balance,
                        den |-> 20 * orders_count * current_price]
             ELSE IF 19 * quote_balance < 20 * min_order THEN Infeasible
                  ELSE IF 19 * quote_balance < 20 * orders_count * min_order
                       THEN Infeasible
                  ELSE [ok |-> TRUE, num |-> 19 * quote_balance,
                        den |-> 20 * orders_count]
        ELSE IF side = "buy"
             THEN \* available_btc < min_btc_per_order, then volume < min_xrp_per_order
                  IF 19 * base_balance * btc_usd < 20 * min_order THEN Infeasible
                  ELSE IF 19 * base_balance * btc_usd < 20 * orders_count * min_order
                       THEN Infeasible
                  ELSE [ok |-> TRUE, num |-> 19 * base_balance,
                        den |-> 20 * orders_count * current_price]
             ELSE IF 19 * quote_balance * current_price * btc_usd < 20 * min_order
                  THEN Infeasible
                  ELSE IF 19 * quote_balance * current_price * btc_usd
                             < 20 * orders_count * min_order
                       THEN Infeasible
                  ELSE [ok |-> TRUE, num |-> 19 * quote_balance,
                        den |-> 20 * orders_count]

\* a variant without the minimum order validation
MeetsMinimumAlways(s, pair, rounded_volume, rounded_price, config) == TRUE

\* the comparison-unit check of place_limit_order on the rounded volume and price
MeetsMinimum(s, pair, rounded_volume, rounded_price, config) ==
    IF pair = "ETH/USD"
    THEN rounded_volume >= config.min_order_size
    ELSE LET btc_usd ==
                 IF s.btc_usd_price # 0 THEN s.btc_usd_price
                 ELSE IF s.current_prices["ETH/USD"] # NoPrice
                      THEN EstimateBtcUsd(s.current_prices["ETH/USD"])
                      ELSE FALLBACK_BTC_USD
         IN  rounded_volume * rounded_price * btc_usd >= config.min_order_size

\* one call of place_limit_order as the exchange side sees it: the rounded
\* order, whether an AddOrder request was made for it, and the BTC/USD price
\* the bot held at that moment
Request(s, order, sent) ==
    [pair |-> order.pair, type |-> order.type, vol |-> order.vol,
     price |-> order.price, sent |-> sent, btc_usd |-> s.btc_usd_price]

\* place_limit_order: id is TRUE when an order id came back
place_limit_order(s, f, pair, side, volume, price_num, price_den, config) ==
    LET rounded_price == round_price(price_num, price_den)
        rounded_volume == round_volume(volume.num, volume.den)
        order == [pair |-> EchoPair(pair), type |-> side,
                  vol |-> rounded_volume, price |-> rounded_price]
        sent == MeetsMinimum(s, pair, rounded_volume, rounded_price, config)
        called == [s EXCEPT !.attempts[side] = @ + 1,
                            !.requests = Append(@, Request(s, order, sent))]
    IN  IF ~sent
        THEN [s |-> called, id |-> FALSE]
        ELSE AddOrder(called, f, order)

\* a variant that puts every level of a side one interval from the price
LevelPriceNumFirst(side, current_price, grid_interval, i) ==
    IF side = "buy" THEN current_price * (1000 - grid_interval)
    ELSE current_price * (1000 + grid_interval)

\* the price of grid level i on one side: current_price * (1 -/+ interval/100 * i)
LevelPriceNum(side, current_price, grid_interval, i) ==
    IF side = "buy" THEN current_price * (1000 - grid_interval * i)
    ELSE current_price * (1000 + grid_interval * i)

\* one batch of placements at levels first+1 .. first+n with one volume:
\* every level is attempted, a failed one is skipped; placed counts the ids
RECURSIVE PlaceLevels(_, _, _, _, _, _, _, _, _, _)
\* r is what the placement at level first+1 returned
\* a variant that gives the batch up at the first placement that failed
PlaceNextOrStop(r, f, pair, side, volume, current_price, config, first, n, placed) ==
    IF ~r.id THEN [s |-> r.s, placed |-> placed]
    ELSE PlaceLevels(r.s, f, pair, side, volume, current_price, config,
                     first + 1, n - 1, placed + 1)
PlaceNext(r, f, pair, side, volume, current_price, config, first, n, placed) ==
    PlaceLevels(r.s, f, pair, side, volume, current_price, config,
                first + 1, n - 1, IF r.id THEN placed + 1 ELSE placed)
PlaceLevels(s, f, pair, side, volume, current_price, config, first, n, placed) ==
    IF n <= 0 THEN [s |-> s, placed |-> placed]
    ELSE PlaceNext(place_limit_order(s, f, pair, side, volume,
                       LevelPriceNum(side, current_price, config.grid_interval, first + 1),
                       1000, config),
                   f, pair, side, volume, current_price, config, first, n, placed)

(***************************************************************************)
(* GridPlanner.                                                            *)
(***************************************************************************)
_save_expected_counts(s) == [s EXCEPT !.counts_file = s.expected_order_counts]

\* a variant that counts on the whole available balance
max_affordable_whole(s, pair, side, config, current_price) ==
    LET base_balance == s.available_balances[config.base_asset]
        quote_balance == s.available_balances[config.quote_asset]
        min_order == config.min_order_size
        btc_usd == BtcUsdOrFallback(s)
    IN  IF pair = "ETH/USD"
        THEN IF side = "buy"
             THEN IntDiv(base_balance, current_price * min_order)
             ELSE IntDiv(quote_balance, min_order)
        ELSE IF side = "buy"
             THEN IntDiv(base_balance * btc_usd, min_order)
             ELSE IntDiv(quote_balance * current_price * btc_usd, min_order)

\* int(available_balance / minimum per order) of one side, with
\* available_balance = 95% of the side's available balance
max_affordable(s, pair, side, config, current_price) ==
    LET base_balance == s.available_balances[config.base_asset]
        quote_balance == s.available_balances[config.quote_asset]
        min_order == config.min_order_size
        btc_usd == BtcUsdOrFallback(s)
    IN  IF pair = "ETH/USD"
        THEN IF side = "buy"
             THEN IntDiv(19 * base_balance, 20 * current_price * min_order)
             ELSE IntDiv(19 * quote_balance, 20 * min_order)
        ELSE IF side = "buy"
             THEN IntDiv(19 * base_balance * btc_usd, 20 * min_order)
             ELSE IntDiv(19 * quote_balance * current_price * btc_usd, 20 * min_order)

\* the affordable number of orders of one side, capped at max_orders_per_side
AffordableCount(s, pair, side, config, current_price) ==
    Min(config.max_orders_per_side, max_affordable(s, pair, side, config, current_price))

\* the placements of one side of a new grid
GridSide(s, f, pair, side, config, current_price, orders_count) ==
    IF orders_count > 0
    THEN LET volume == calculate_order_volume(s, pair, side, config,
                                              current_price, orders_count)
         IN  IF ~volume.ok THEN [s |-> s, placed |-> 0]
             ELSE PlaceLevels(s, f, pair, side, volume, current_price, config,
                              0, orders_count, 0)
    ELSE [s |-> s, placed |-> 0]

\* a variant that records the intended (affordable) counts
GridExpectedIntended(buy_orders_count, sell_orders_count, buy_orders_placed, sell_orders_placed) ==
    [buy |-> buy_orders_count, sell |-> sell_orders_count]

\* the expected counts written after a grid was built
GridExpected(buy_orders_count, sell_orders_count, buy_orders_placed, sell_orders_placed) ==
    [buy |-> buy_orders_placed, sell |-> sell_orders_placed]

\* the counters of the machine, at zero for the next pair
Fresh(s) == [s EXCEPT !.attempts = [buy |-> 0, sell |-> 0], !.calls = 0,
                      !.accepted = [buy |-> 0, sell |-> 0], !.requests = <<>>]

\* the bookkeeping after both sides were placed; a is the sell side's result
RecordGrid(pair, current_price, buy_orders_count, sell_orders_count, buy_orders_placed, a) ==
    [s |-> _save_expected_counts(
             [a.s EXCEPT
                !.grid_center_prices[pair] = current_price,
                !.expected_order_counts[pair] =
                    GridExpected(buy_orders_count, sell_orders_count,
                                 buy_orders_placed, a.placed),
                !.grid_log[pair] =
                    [ok |-> TRUE, price |-> current_price,
                     intended_buy |-> buy_orders_count,
                     intended_sell |-> sell_orders_count,
                     placed_buy |-> a.s.accepted.buy,
                     placed_sell |-> a.s.accepted.sell,
                     calls |-> a.s.calls, requests |-> a.s.requests,
                     base_balance |->
                         a.s.available_balances[TRADING_PAIRS(pair).base_asset],
                     quote_balance |->
                         a.s.available_balances[TRADING_PAIRS(pair).quote_asset],
                     btc_usd |-> BtcUsdOrFallback(a.s)]]),
     ok |-> TRUE]

\* an exception in the body of create_grid_orders: its except clause logs
\* and returns False, nothing is recorded or saved; the orders placed so far
\* stay open
GridRaised(s, pair) ==
    [s |-> [s EXCEPT !.grid_log[pair] =
                [NoGridLog EXCEPT !.placed_buy = s.accepted.buy,
                                  !.placed_sell = s.accepted.sell,
                                  !.calls = s.calls, !.requests = s.requests]],
     ok |-> FALSE]
\* where the body may raise: before the buy side (0), before the sell side (1)
RaisesAt(f, point) == f.kind = "gridRaise" /\ f.k = point

\* the sell side, after the buy side returned b
PlaceGridSells(f, pair, config, current_price, buy_orders_count, sell_orders_count, b) ==
    IF RaisesAt(f, 1) THEN GridRaised(b.s, pair)
    ELSE
    RecordGrid(pair, current_price, buy_orders_count, sell_orders_count, b.placed,
               GridSide(b.s, f, pair, "sell", config, current_price, sell_orders_count))

PlaceGrid(s, f, pair, config, current_price, buy_orders_count, sell_orders_count) ==
    IF RaisesAt(f, 0) THEN GridRaised(s, pair)
    ELSE
    PlaceGridSells(f, pair, config, current_price, buy_orders_count, sell_orders_count,
                   GridSide(s, f, pair, "buy", config, current_price, buy_orders_count))

create_grid_orders(s0, f, pair, config) ==
    IF s0.current_prices[pair] = NoPrice
    THEN [s |-> [s0 EXCEPT !.grid_log[pair] = NoGridLog], ok |-> FALSE]
    ELSE PlaceGrid(Fresh(s0),
                   f, pair, config, s0.current_prices[pair],
                   AffordableCount(s0, pair, "buy", config, s0.current_prices[pair]),
                   AffordableCount(s0, pair, "sell", config, s0.current_prices[pair]))

(***************************************************************************)
(* RepositionController.                                                   *)
(***************************************************************************)
\* price_deviation > grid_range_percent + threshold, where
\* price_deviation = |current_price - grid_center| / grid_center * 100 and
\* grid_range_percent = (grid_interval / 100.0) * max_orders_per_side
DeviationExceeds(config, current_price, grid_center) ==
    Abs(current_price - grid_center) * 100000
        > (config.grid_interval * config.max_orders_per_side
           + 1000 * config.grid_reposition_threshold) * grid_center

\* a variant without the cooldown test
CooldownIgnored(config, time, last_reposition) == TRUE

CooldownElapsed(config, time, last_reposition) ==
    ~(last_reposition # -1 /\ time - last_reposition < config.grid_reposition_cooldown)

check_grid_reposition_needed(s, pair, config) ==
    /\ config.dynamic_grid_reposition
    /\ s.current_prices[pair] # NoPrice
    /\ s.grid_center_prices[pair] # NoPrice
    /\ CooldownElapsed(config, s.now, s.last_reposition_time[pair])
    /\ DeviationExceeds(config, s.current_prices[pair], s.grid_center_prices[pair])

\* CancelAll for one pair: the exchange closes the pair's orders
RECURSIVE WithoutPairIn(_, _, _)
WithoutPairIn(S, book, pair) ==
    IF S = {} THEN book
    ELSE LET o == CHOOSE x \in S : TRUE
             rest == WithoutPairIn(S \ {o}, book, pair)
         IN  IF o.pair = EchoPair(pair)
             THEN [x \in DOMAIN rest \ {o} |-> rest[x]]
             ELSE rest
CancelPair(s, f, pair) ==
    IF f.kind = "cancel" THEN s
    ELSE [s EXCEPT !.open_orders = WithoutPairIn(BagToSet(@), @, pair)]

\* a variant that stamps the reposition time whatever create_grid_orders
\* returned
RepositionedAlways(pair, g) ==
    [s |-> [g.s EXCEPT !.last_reposition_time[pair] = g.s.now], ok |-> g.ok]

\* g is what create_grid_orders returned
Repositioned(pair, g) ==
    IF g.ok
    THEN [s |-> [g.s EXCEPT !.last_reposition_time[pair] = g.s.now], ok |-> TRUE]
    ELSE [s |-> g.s, ok |-> FALSE]

reposition_grid(s, f, pair, config) ==
    Repositioned(pair,
        create_grid_orders(
            get_current_prices(get_account_balance(CancelPair(s, f, pair), f), f),
            f, pair, config))

(***************************************************************************)
(* ReconciliationEngine.                                                   *)
(***************************************************************************)
\* match_order_to_pair over the pair strings the exchange echoes
matched_pair == [order_pair \in PairStrings |-> match_order_to_pair(order_pair)]

\* orders_by_pair and unmatched_orders of a fetched set of open orders
RECURSIVE MatchedIn(_, _, _, _)
MatchedIn(S, orders, pair, side) ==
    IF S = {} THEN 0
    ELSE LET o == CHOOSE x \in S : TRUE
         IN  (IF matched_pair[o.pair] = pair /\ o.type = side
              THEN CopiesIn(o, orders) ELSE 0)
             + MatchedIn(S \ {o}, orders, pair, side)
orders_by_pair(orders, pair) ==
    [buy |-> MatchedIn(BagToSet(orders), orders, pair, "buy"),
     sell |-> MatchedIn(BagToSet(orders), orders, pair, "sell")]

RECURSIVE UnmatchedIn(_, _)
UnmatchedIn(S, orders) ==
    IF S = {} THEN 0
    ELSE LET o == CHOOSE x \in S : TRUE
         IN  (IF o.pair # <<>> /\ matched_pair[o.pair] = NoPair
              THEN CopiesIn(o, orders) ELSE 0)
             + UnmatchedIn(S \ {o}, orders)
unmatched_orders(orders) == UnmatchedIn(BagToSet(orders), orders)

\* initialisation of a pair without expected counts
SeedAllowed(current, unmatched) ==
    current.buy > 0 \/ current.sell > 0 \/ unmatched = 0

\* a variant without the clamp
ClampNone(expected, current, max_orders) == expected

\* the clamp of one expected count
Clamp(expected, current, max_orders) ==
    IF expected > max_orders THEN current ELSE expected

\* the first loop of the tick over one pair
InitExpected(s, pair, current, unmatched) ==
    LET config == TRADING_PAIRS(pair)
        expected == s.expected_order_counts[pair]
    IN  IF expected = NoCounts
        THEN IF SeedAllowed(current, unmatched)
             THEN [s EXCEPT !.expected_order_counts[pair] =
                               [buy |-> current.buy, sell |-> current.sell]]
             ELSE s
        ELSE [s EXCEPT !.expected_order_counts[pair] =
                          [buy |-> Clamp(expected.buy, current.buy,
                                         config.max_orders_per_side),
                           sell |-> Clamp(expected.sell, current.sell,
                                          config.max_orders_per_side)]]

\* what a top-up step worked on: the balances, the prices and whether an
\* order could be sized
NoTopUpLog ==
    [ran |-> FALSE, sized |-> FALSE, base_balance |-> 0, quote_balance |-> 0,
     btc_usd |-> 0, price |-> 0]
NoTickLog ==
    [ran |-> FALSE, had |-> FALSE, obs_buy |-> 0, obs_sell |-> 0, unmatched |-> 0,
     exp0_buy |-> -1, exp0_sell |-> -1, exp_buy |-> -1, exp_sell |-> -1,
     repo |-> FALSE, repo_ok |-> FALSE, grid_placed |-> 0,
     repl_buy_sized |-> FALSE, repl_buy_tried |-> 0, repl_buy_placed |-> 0,
     repl_sell_sized |-> FALSE, repl_sell_tried |-> 0, repl_sell_placed |-> 0,
     top_buy_tried |-> 0, top_buy_placed |-> 0,
     top_sell_tried |-> 0, top_sell_placed |-> 0, requests |-> <<>>,
     top |-> [side \in Sides |-> NoTopUpLog],
     repl_buy_funds |-> 0, repl_sell_funds |-> 0]

\* the expected counts written when no replacement order could be placed
FailedReplacement(side, expected_buy, expected_sell, buy_count, sell_count) ==
    IF side = "sell" THEN [buy |-> expected_buy, sell |-> sell_count]
    ELSE [buy |-> buy_count, sell |-> expected_sell]

\* the expected counts written from the re-fetched open orders
Refreshed(s, f, pair) ==
    orders_by_pair(get_open_orders(s, f.kind # "refetch"), pair)

\* the re-fetch answered with an order entry without a description object:
\* reading it raises, the handler of the tick's try block takes over
Raise(s) == [s EXCEPT !.raised = TRUE]

\* the re-fetch of a fill branch and the write of the counts it returned;
\* s.refetches counts the re-fetches of the tick
Refresh(s, f, pair) ==
    IF f.kind = "malformed" /\ f.k = s.refetches + 1 THEN Raise(s)
    ELSE [s EXCEPT !.refetches = @ + 1,
                   !.expected_order_counts[pair] = Refreshed(s, f, pair)]

\* the bookkeeping of a fill branch; r is what the placements returned,
\* repl_buy_funds/repl_sell_funds the available balance the orders were sized on,
\* c = [s, lg, eb, es]: the machine, the pair's log, the locals expected_buy/_sell
Replaced(c, f, pair, side, buy_count, sell_count, s1, sized, r) ==
    [c EXCEPT
       !.s = IF r.placed > 0
             THEN Refresh(r.s, f, pair)
             ELSE [r.s EXCEPT !.expected_order_counts[pair] =
                      FailedReplacement(side, c.eb, c.es, buy_count, sell_count)],
       !.lg = IF side = "sell"
              THEN [@ EXCEPT !.repl_buy_sized = sized,
                             !.repl_buy_funds =
                                 s1.available_balances[TRADING_PAIRS(pair).base_asset],
                             !.repl_buy_tried = r.s.attempts.buy - s1.attempts.buy,
                             !.repl_buy_placed = r.s.accepted.buy - s1.accepted.buy]
              ELSE [@ EXCEPT !.repl_sell_sized = sized,
                             !.repl_sell_funds =
                                 s1.available_balances[TRADING_PAIRS(pair).quote_asset],
                             !.repl_sell_tried = r.s.attempts.sell - s1.attempts.sell,
                             !.repl_sell_placed = r.s.accepted.sell - s1.accepted.sell]]

\* a variant that places one replacement order whatever the gap
ReplaceOnce(c, f, pair, config, side, buy_count, sell_count, gap, s1) ==
    LET other == IF side = "sell" THEN "buy" ELSE "sell"
        first == IF side = "sell" THEN buy_count ELSE sell_count
        current_price == s1.current_prices[pair]
        volume == calculate_order_volume(s1, pair, other, config, current_price, 1)
    IN  Replaced(c, f, pair, side, buy_count, sell_count, s1, volume.ok,
                 IF volume.ok
                 THEN PlaceLevels(s1, f, pair, other, volume, current_price,
                                  config, first, 1, 0)
                 ELSE [s |-> s1, placed |-> 0])

\* the replacement orders for a gap on `side`; s1 is the machine after the
\* balance refresh
Replace(c, f, pair, config, side, buy_count, sell_count, gap, s1) ==
    LET other == IF side = "sell" THEN "buy" ELSE "sell"
        first == IF side = "sell" THEN buy_count ELSE sell_count
        current_price == s1.current_prices[pair]
        volume == calculate_order_volume(s1, pair, other, config, current_price, 1)
    IN  Replaced(c, f, pair, side, buy_count, sell_count, s1, volume.ok,
                 IF volume.ok
                 THEN PlaceLevels(s1, f, pair, other, volume, current_price,
                                  config, first, gap, 0)
                 ELSE [s |-> s1, placed |-> 0])

\* fill branch: `side` orders disappeared, orders of the other side replace them
FillBranch(c, f, pair, config, side, buy_count, sell_count) ==
    LET gap == IF side = "sell" THEN c.es - sell_count ELSE c.eb - buy_count
    IN  IF c.s.raised \/ gap <= 0 THEN c
        ELSE Replace(c, f, pair, config, side, buy_count, sell_count, gap,
                     get_account_balance(c.s, f))

\* a variant that adds the affordable count without deducting the orders the
\* side holds
TopUpCountWhole(s, pair, side, config, current_price, count) ==
    IF count < config.max_orders_per_side
    THEN Max(0, Min(config.max_orders_per_side,
                    max_affordable(s, pair, side, config, current_price)))
    ELSE 0

\* how many orders a top-up adds to a side that holds `count` orders
TopUpCount(s, pair, side, config, current_price, count) ==
    LET max_orders_per_side == config.max_orders_per_side
        affordable == max_affordable(s, pair, side, config, current_price)
    IN  IF count < config.min_orders_per_side
        THEN \* needed
             Max(0, Min(Min(max_orders_per_side, affordable) - count,
                        max_orders_per_side - count))
        ELSE IF count < max_orders_per_side
        THEN \* can_add
             Min(max_orders_per_side - count, Max(0, affordable - count))
        ELSE 0

\* the expected counts written after a top-up placed orders
ToppedUp(side, expected_buy, expected_sell) ==
    [buy |-> expected_buy, sell |-> expected_sell]

\* the bookkeeping of a top-up; r is what the placements returned
AfterTopUp(c, pair, side, count, r) ==
    LET eb == IF side = "buy" /\ r.placed > 0 THEN count + r.placed ELSE c.eb
        es == IF side = "sell" /\ r.placed > 0 THEN count + r.placed ELSE c.es
    IN  [c EXCEPT
           !.s = IF r.placed > 0
                 THEN [r.s EXCEPT !.expected_order_counts[pair] = ToppedUp(side, eb, es)]
                 ELSE r.s,
           !.eb = eb, !.es = es,
           !.lg = IF side = "buy"
                  THEN [@ EXCEPT !.top_buy_tried = r.s.attempts.buy - c.s.attempts.buy,
                                 !.top_buy_placed = r.s.accepted.buy - c.s.accepted.buy]
                  ELSE [@ EXCEPT !.top_sell_tried = r.s.attempts.sell - c.s.attempts.sell,
                                 !.top_sell_placed =
                                     r.s.accepted.sell - c.s.accepted.sell]]

\* c with the inputs of the top-up of `side` in its log
TopUpLogged(c, pair, config, side, current_price, sized) ==
    [c EXCEPT !.lg.top[side] =
        [ran |-> TRUE, sized |-> sized,
         base_balance |-> c.s.available_balances[config.base_asset],
         quote_balance |-> c.s.available_balances[config.quote_asset],
         btc_usd |-> BtcUsdOrFallback(c.s), price |-> current_price]]

TopUp(c, f, pair, config, side, count) ==
    LET current_price == c.s.current_prices[pair]
        n == TopUpCount(c.s, pair, side, config, current_price, count)
        volume == calculate_order_volume(c.s, pair, side, config, current_price, n)
    IN  IF c.s.raised THEN c
        ELSE IF n <= 0
        THEN TopUpLogged(c, pair, config, side, current_price, FALSE)
        ELSE AfterTopUp(TopUpLogged(c, pair, config, side, current_price, volume.ok),
                        pair, side, count,
                        IF volume.ok
                        THEN PlaceLevels(c.s, f, pair, side, volume, current_price,
                                         config, count, n, 0)
                        ELSE [s |-> c.s, placed |-> 0])

\* what the second loop of the tick returns for one pair
PairDone(c) == [s |-> c.s, lg |-> [c.lg EXCEPT !.requests = c.s.requests]]

\* the expected counts the second loop reads for a pair
ExpectedOrDefault(s, pair) ==
    IF s.expected_order_counts[pair] = NoCounts
    THEN [buy |-> 0, sell |-> 0]
    ELSE s.expected_order_counts[pair]

\* fill replacement and top-up of one pair
HandleOrders(s, f, pair, config, current, lg) ==
    PairDone(
      TopUp(
        TopUp(
          FillBranch(
            FillBranch([s |-> s, lg |-> lg,
                        eb |-> ExpectedOrDefault(s, pair).buy,
                        es |-> ExpectedOrDefault(s, pair).sell],
                       f, pair, config, "sell", current.buy, current.sell),
            f, pair, config, "buy", current.buy, current.sell),
          f, pair, config, "buy", current.buy),
        f, pair, config, "sell", current.sell))

\* a variant that falls through to the individual handling of the pair
FallThrough(r, f, pair, config, current, lg) ==
    HandleOrders(r.s, f, pair, config, current,
                 [lg EXCEPT !.repo = TRUE, !.repo_ok = r.ok,
                            !.grid_placed = r.s.accepted.buy + r.s.accepted.sell])

\* after reposition_grid returned r: `continue`
SkipOrders(r, f, pair, config, current, lg) ==
    [s |-> r.s,
     lg |-> [lg EXCEPT !.repo = TRUE, !.repo_ok = r.ok,
                       !.grid_placed = r.s.accepted.buy + r.s.accepted.sell]]

\* the second loop of the tick over one pair; lg is the pair's log so far
ProcessPair(s0, f, pair, current, lg) ==
    LET config == TRADING_PAIRS(pair)
    IN  IF s0.raised \/ s0.current_prices[pair] = NoPrice THEN [s |-> s0, lg |-> lg]
        ELSE IF check_grid_reposition_needed(s0, pair, config)
        THEN SkipOrders(reposition_grid(s0, f, pair, config), f, pair, config,
                        current, [lg EXCEPT !.ran = TRUE])
        ELSE HandleOrders(Fresh(s0), f, pair, config, current,
                          [lg EXCEPT !.ran = TRUE])

\* what the tick saw for a pair before its second loop
TickLogAtStart(s0, s1, p, current, unmatched) ==
    [NoTickLog EXCEPT
       !.had = s0.expected_order_counts[p] # NoCounts,
       !.obs_buy = current[p].buy, !.obs_sell = current[p].sell,
       !.unmatched = unmatched,
       !.exp0_buy = s0.expected_order_counts[p].buy,
       !.exp0_sell = s0.expected_order_counts[p].sell,
       !.exp_buy = s1.expected_order_counts[p].buy,
       !.exp_sell = s1.expected_order_counts[p].sell]

\* the end of the tick: r2 is what the last pair returned; the counts are
\* saved unless the tick left through its except clause
TickDone(lg1, r2) ==
    [s |-> IF r2.s.raised THEN r2.s ELSE _save_expected_counts(r2.s),
     lg |-> [p \in PairSet |-> IF p = Pairs[1] THEN lg1 ELSE r2.lg]]

\* a variant that processes the second pair whatever the first pair left
SecondPairRegardless(f, current, lg2, r1) ==
    TickDone(r1.lg, ProcessPair([r1.s EXCEPT !.raised = FALSE], f, Pairs[2],
                                current[Pairs[2]], lg2))

SecondPair(f, current, lg2, r1) ==
    TickDone(r1.lg, ProcessPair(r1.s, f, Pairs[2], current[Pairs[2]], lg2))

\* the second loop; s1 is the machine after the first loop
ProcessPairs(s0, f, current, unmatched, s1) ==
    SecondPair(f, current, TickLogAtStart(s0, s1, Pairs[2], current, unmatched),
               ProcessPair(s1, f, Pairs[1], current[Pairs[1]],
                           TickLogAtStart(s0, s1, Pairs[1], current, unmatched)))

\* the first loop, over the counted orders
Reconcile(s0, f, current, unmatched) ==
    ProcessPairs(s0, f, current, unmatched,
                 InitExpected(InitExpected(s0, Pairs[1], current[Pairs[1]], unmatched),
                              Pairs[2], current[Pairs[2]], unmatched))

\* monitor_and_replace_orders
monitor_and_replace_orders(s0, f) ==
    Reconcile(s0, f,
              [p \in PairSet |-> orders_by_pair(get_open_orders(s0, f.kind # "open"), p)],
              unmatched_orders(get_open_orders(s0, f.kind # "open")))

(***************************************************************************)
(* cancel_all_orders, start_trading and the main loop.                     *)
(***************************************************************************)
\* CancelAll closes every open order of the account unless the call failed
cancel_all_orders(s, f) ==
    IF f.kind = "cancel" THEN s ELSE [s EXCEPT !.open_orders = EmptyBag]

\* the faults of one handler run: at most one kind of call fails in it
NoFault == [kind |-> "none", k |-> 0]
RejectOrdinals == 1..(2 * MaxOrdersPerSide)
RefetchOrdinals == 1..Len(Pairs)
GridRaisePoints == 0..1
Faults ==
    {NoFault}
    \cup {[kind |-> x, k |-> 0] :
            x \in {"open", "bal", "balOpen", "refetch", "cancel", "price", "rejAll"}}
    \cup {[kind |-> "malformed", k |-> i] : i \in RefetchOrdinals}
    \cup {[kind |-> "gridRaise", k |-> i] : i \in GridRaisePoints}
    \cup {[kind |-> "omit", k |-> i] : i \in 1..Len(TickerPairs)}
    \cup {[kind |-> "rej", k |-> i] : i \in RejectOrdinals}

\* start_trading up to the main loop
Started(g) == [s |-> g.s, ok |-> TRUE]
start_trading(s0, f) ==
    IF ~BalanceOk(f) THEN [s |-> s0, ok |-> FALSE]
    ELSE IF ~PricesOk(f) THEN [s |-> get_account_balance(s0, f), ok |-> FALSE]
    ELSE Started(
           create_grid_orders(
             create_grid_orders(
               get_account_balance(
                 cancel_all_orders(
                   get_current_prices(get_account_balance(s0, f), f), f), f),
               f, Pairs[1], TRADING_PAIRS(Pairs[1])).s,
             f, Pairs[2], TRADING_PAIRS(Pairs[2])))

NoTickInfo ==
    [n |-> 0, fault |-> NoFault, same |-> FALSE,
     before |-> [p \in PairSet |-> NoCounts],
     prices |-> [p \in PairSet |-> NoPrice],
     orders_before |-> EmptyBag, orders_seen |-> EmptyBag]

NoTrigger == [center |-> 0, price |-> 0, last |-> -1, time |-> 0, dynamic |-> FALSE]

\* the account and the market when the program starts
InitialBalances ==
    {[ZUSD |-> 5000000, XETH |-> 320, XXBT |-> 4000, XXRP |-> 40],
     [ZUSD |-> 3200000, XETH |-> 4, XXBT |-> 4000, XXRP |-> 40]}
InitialMarket == [p \in {"XRP/BTC", "ETH/USD", "BTC/USD"} |->
                    IF p = "ETH/USD" THEN 300000
                    ELSE IF p = "XRP/BTC" THEN 100 ELSE 1000]
\* .expected_order_counts.json of an earlier session, when there is one
StaleCounts == [p \in PairSet |->
                  IF p = "ETH/USD" THEN [buy |-> 2, sell |-> MaxOrdersPerSide + 2]
                  ELSE NoCounts]

Init ==
    /\ ex_balances \in InitialBalances
    /\ market = InitialMarket
    /\ open_orders = EmptyBag
    /\ counts_file \in {[p \in PairSet |-> NoCounts], StaleCounts}
    /\ expected_order_counts = counts_file
    /\ balances = [a \in Assets |-> 0]
    /\ available_balances = [a \in Assets |-> 0]
    /\ current_prices = [p \in PairSet |-> NoPrice]
    /\ btc_usd_price = 0
    /\ grid_center_prices = [p \in PairSet |-> NoPrice]
    /\ last_reposition_time = [p \in PairSet |-> -1]
    /\ now = 0
    /\ pc = "start"
    /\ ticks = 0
    /\ events = 0
    /\ grid_log = [p \in PairSet |-> NoGridLog]
    /\ tick_log = [p \in PairSet |-> NoTickLog]
    /\ tick_info = NoTickInfo
    /\ changed = FALSE
    /\ faults = 0
    /\ balance_fault = "none"
    /\ last_nonce = 0
    /\ trigger_in = NoTrigger
    /\ trigger_out = FALSE

Aside == <<trigger_in, trigger_out, last_nonce>>
Logs == <<balance_fault, Aside>>

\* the faults a handler run may meet, of the kinds it can meet
Allowed(kinds) ==
    IF faults < MaxFaults THEN {f \in Faults : f.kind \in kinds \cup {"none"}}
    ELSE {NoFault}
Count(f) == IF f = NoFault THEN faults ELSE faults + 1

StartTrading ==
    /\ pc = "start"
    /\ \E f \in Allowed({"bal", "balOpen", "price", "omit", "cancel", "rejAll", "rej",
                         "gridRaise"}) :
         \E r \in {start_trading(Machine, f)} :
             /\ Install(r.s)
             /\ pc' = IF r.ok THEN "balance" ELSE "stopped"
             /\ ticks' = IF r.ok THEN 1 ELSE 0
             /\ faults' = Count(f)
    /\ UNCHANGED <<events, tick_log, tick_info, changed, Logs>>

\* a variant in which a failed refresh ends the loop
AfterRefreshChecked(ok, next) == IF ok THEN next ELSE "stopped"

\* the loop awaits a refresh and drops what it returns
AfterRefresh(ok, next) == next

GetAccountBalance ==
    /\ pc = "balance"
    /\ \E f \in Allowed({"bal", "balOpen"}) :
         /\ Install(get_account_balance(Machine, f))
         /\ faults' = Count(f)
         /\ balance_fault' = f.kind
         /\ pc' = AfterRefresh(BalanceOk(f), "prices")
    /\ UNCHANGED <<ticks, events, tick_log, tick_info, changed, Aside>>

GetCurrentPrices ==
    /\ pc = "prices"
    /\ \E f \in Allowed({"price", "omit"}) :
         /\ Install(get_current_prices(Machine, f))
         /\ faults' = Count(f)
         /\ pc' = AfterRefresh(PricesOk(f), "monitor")
    /\ UNCHANGED <<ticks, events, tick_log, tick_info, changed, Logs>>

MonitorAndReplaceOrders ==
    /\ pc = "monitor"
    /\ \E f \in Allowed({"open", "bal", "balOpen", "refetch", "malformed", "cancel",
                         "price", "omit", "rejAll", "rej", "gridRaise"}) :
         \E r \in {monitor_and_replace_orders(Machine, f)} :
             /\ Install(r.s)
             /\ tick_log' = r.lg
             /\ tick_info' =
                  [n |-> ticks, fault |-> f,
                   same |-> /\ ticks > 1
                            /\ ~changed
                            /\ current_prices = tick_info.prices,
                   before |-> expected_order_counts,
                   prices |-> r.s.current_prices,
                   orders_before |-> open_orders,
                   orders_seen |-> get_open_orders(Machine, f.kind # "open")]
             /\ faults' = Count(f)
    /\ changed' = FALSE
    /\ pc' = "report"
    /\ UNCHANGED <<ticks, events, Logs>>

\* the periodic PnL report reads the trade database only
Report ==
    /\ pc = "report"
    /\ pc' = "sleep"
    /\ UNCHANGED <<balances, available_balances, current_prices, btc_usd_price,
                   grid_center_prices, last_reposition_time, expected_order_counts,
                   counts_file, open_orders, ex_balances, market, now, ticks,
                   events, grid_log, tick_log, tick_info, changed, faults, Logs>>

\* asyncio.sleep(ORDER_CHECK_INTERVAL), then the next iteration
Sleep ==
    /\ pc = "sleep"
    /\ ticks < MaxTicks
    /\ now' = now + ORDER_CHECK_INTERVAL
    /\ ticks' = ticks + 1
    /\ pc' = "balance"
    /\ UNCHANGED <<balances, available_balances, current_prices, btc_usd_price,
                   grid_center_prices, last_reposition_time, expected_order_counts,
                   counts_file, open_orders, ex_balances, market,
                   events, grid_log, tick_log, tick_info, changed, faults, Logs>>

(***************************************************************************)
(* The outside world, between two iterations of the main loop.             *)
(***************************************************************************)
EthPrices == {300000, 310000, 320000}
ForeignOrders ==
    {[pair |-> S_XBTUSD, type |-> "buy", vol |-> 1, price |-> 500000],
     [pair |-> S_ETHUSDT, type |-> "sell", vol |-> 1, price |-> 310000]}
Wait == 300

World ==
    /\ pc = "balance"
    /\ events < MaxEvents
    /\ events' = events + 1
    /\ changed' = TRUE
    /\ UNCHANGED <<balances, available_balances, current_prices, btc_usd_price,
                   grid_center_prices, last_reposition_time, expected_order_counts,
                   counts_file, pc, ticks, grid_log, tick_log, tick_info, faults,
                   Logs>>

\* the asset an order of a configured pair buys, or is paid in
ReceiveAsset(o) ==
    IF o.pair = S_ETHUSD THEN (IF o.type = "buy" THEN "XETH" ELSE "ZUSD")
    ELSE (IF o.type = "buy" THEN "XXRP" ELSE "XXBT")
ReceiveAmount(o) == IF o.type = "buy" THEN o.vol ELSE o.vol * o.price

\* the orders the market reaches first: the highest buy, the lowest sell
Nearest(o, book) ==
    \A x \in BagToSet(book) :
        (x.pair = o.pair /\ x.type = o.type) =>
            IF o.type = "buy" THEN x.price <= o.price ELSE x.price >= o.price

\* an open order of a configured pair executes in full
Fill ==
    /\ World
    /\ \E o \in BagToSet(open_orders) :
         /\ o.pair \in {S_ETHUSD, S_XRPXBT}
         /\ Nearest(o, open_orders)
         /\ open_orders' = open_orders (-) SetToBag({o})
         /\ ex_balances' = [ex_balances EXCEPT
                              ![SpendAsset(o)] = @ - SpendAmount(o),
                              ![ReceiveAsset(o)] = @ + ReceiveAmount(o)]
    /\ UNCHANGED <<market, now>>

PriceMove ==
    /\ World
    /\ \E v \in EthPrices \ {market["ETH/USD"]} :
         market' = [market EXCEPT !["ETH/USD"] = v]
    /\ UNCHANGED <<open_orders, ex_balances, now>>

\* the account holder opens an order on a pair the program does not trade
ForeignOrder ==
    /\ World
    /\ \E o \in ForeignOrders :
         /\ ~BagIn(o, open_orders)
         /\ Funded(Machine, o)
         /\ open_orders' = open_orders (+) SetToBag({o})
    /\ UNCHANGED <<ex_balances, market, now>>

TimePasses ==
    /\ World
    /\ now' = now + Wait
    /\ UNCHANGED <<open_orders, ex_balances, market>>

Next ==
    \/ StartTrading
    \/ GetAccountBalance
    \/ GetCurrentPrices
    \/ MonitorAndReplaceOrders
    \/ Report
    \/ Sleep
    \/ Fill
    \/ PriceMove
    \/ ForeignOrder
    \/ TimePasses

Spec == Init /\ [][Next]_vars

(***************************************************************************)
(* check_grid_reposition_needed on its own, with the configuration of      *)
(* ETH/USD as shipped: inputs are drawn, the check is applied to each.     *)
(***************************************************************************)
\* TRADING_PAIRS['ETH/USD']['max_orders_per_side']
ETH_MAX_ORDERS_PER_SIDE == 18

TriggerCenters == {10000, 20000}
\* the deviation of the price from the centre, in percent of the centre
TriggerDeviations == {-33, -25, -6, -5, 0, 5, 6, 25, 32, 33}
TriggerTimes == {0, 299, 300, 1000}
TriggerInputs ==
    {[center |-> c, price |-> c + (c * d) \div 100, last |-> l, time |-> tm,
      dynamic |-> dyn] :
        c \in TriggerCenters, d \in TriggerDeviations, l \in {-1, 0},
        tm \in TriggerTimes, dyn \in BOOLEAN}

TriggerConfig(in) ==
    [TRADING_PAIRS("ETH/USD") EXCEPT
        !.max_orders_per_side = ETH_MAX_ORDERS_PER_SIDE,
        !.dynamic_grid_reposition = in.dynamic]

\* the bot when it runs the check on the input
TriggerMachine(in) ==
    [Machine EXCEPT !.current_prices["ETH/USD"] = in.price,
                    !.grid_center_prices["ETH/USD"] = in.center,
                    !.last_reposition_time["ETH/USD"] = in.last,
                    !.now = in.time]

InitTrigger ==
    /\ trigger_in \in TriggerInputs
    /\ trigger_out = FALSE
    /\ pc = "check"
    /\ ex_balances \in InitialBalances
    /\ market = InitialMarket
    /\ open_orders = EmptyBag
    /\ counts_file = [p \in PairSet |-> NoCounts]
    /\ expected_order_counts = counts_file
    /\ balances = [a \in Assets |-> 0]
    /\ available_balances = [a \in Assets |-> 0]
    /\ current_prices = [p \in PairSet |-> NoPrice]
    /\ btc_usd_price = 0
    /\ grid_center_prices = [p \in PairSet |-> NoPrice]
    /\ last_reposition_time = [p \in PairSet |-> -1]
    /\ now = 0
    /\ ticks = 0
    /\ events = 0
    /\ grid_log = [p \in PairSet |-> NoGridLog]
    /\ tick_log = [p \in PairSet |-> NoTickLog]
    /\ tick_info = NoTickInfo
    /\ changed = FALSE
    /\ faults = 0
    /\ balance_fault = "none"
    /\ last_nonce = 0

CheckGridRepositionNeeded ==
    /\ pc = "check"
    /\ trigger_out' = check_grid_reposition_needed(TriggerMachine(trigger_in),
                                                   "ETH/USD", TriggerConfig(trigger_in))
    /\ pc' = "checked"
    /\ UNCHANGED <<balances, available_balances, current_prices, btc_usd_price,
                   grid_center_prices, last_reposition_time, expected_order_counts,
                   counts_file, open_orders, ex_balances, market, now, ticks,
                   events, grid_log, tick_log, tick_info, changed, faults,
                   balance_fault, trigger_in, last_nonce>>

NextTrigger == CheckGridRepositionNeeded

SpecTrigger == InitTrigger /\ [][NextTrigger]_vars

(***************************************************************************)
(* The order value check of place_limit_order for XRP/BTC on its own: the  *)
(* ticker is fetched up to MaxFetches times, ETH/USD trades in between,    *)
(* and one order is handed to place_limit_order.  ticks counts the         *)
(* fetches, faults those that did not deliver BTC/USD.                     *)
(***************************************************************************)
MaxFetches == 2
ValueVolumes == 9..21
TickerFaults == {f \in Faults : f.kind \in {"none", "price", "omit"}}
Delivers(f, p) == PricesOk(f) /\ ~(f.kind = "omit" /\ TickerPairs[f.k] = p)

InitValue ==
    /\ ex_balances \in InitialBalances
    /\ market = InitialMarket
    /\ open_orders = EmptyBag
    /\ counts_file = [p \in PairSet |-> NoCounts]
    /\ expected_order_counts = counts_file
    /\ balances = [a \in Assets |-> 0]
    /\ available_balances = [a \in Assets |-> 0]
    /\ current_prices = [p \in PairSet |-> NoPrice]
    /\ btc_usd_price = 0
    /\ grid_center_prices = [p \in PairSet |-> NoPrice]
    /\ last_reposition_time = [p \in PairSet |-> -1]
    /\ now = 0
    /\ pc = "fetch"
    /\ ticks = 0
    /\ events = 0
    /\ grid_log = [p \in PairSet |-> NoGridLog]
    /\ tick_log = [p \in PairSet |-> NoTickLog]
    /\ tick_info = NoTickInfo
    /\ changed = FALSE
    /\ faults = 0
    /\ balance_fault = "none"
    /\ last_nonce = 0
    /\ trigger_in = NoTrigger
    /\ trigger_out = FALSE

FetchPrices ==
    /\ pc = "fetch"
    /\ ticks < MaxFetches
    /\ \E f \in TickerFaults :
         /\ Install(get_current_prices(Machine, f))
         /\ faults' = IF Delivers(f, "BTC/USD") THEN faults ELSE faults + 1
    /\ ticks' = ticks + 1
    /\ UNCHANGED <<pc, events, tick_log, tick_info, changed, balance_fault,
                   trigger_in, trigger_out, last_nonce>>

EthTrades ==
    /\ pc = "fetch"
    /\ \E v \in EthPrices \ {market["ETH/USD"]} :
         market' = [market EXCEPT !["ETH/USD"] = v]
    /\ UNCHANGED <<balances, available_balances, current_prices, btc_usd_price,
                   grid_center_prices, last_reposition_time, expected_order_counts,
                   counts_file, open_orders, ex_balances, now, pc, ticks, events,
                   grid_log, tick_log, tick_info, changed, faults, balance_fault,
                   trigger_in, trigger_out, last_nonce>>

\* the machine after the call, with the call in the log of the pair
Logged(s, pair) ==
    [s EXCEPT !.grid_log[pair] = [NoGridLog EXCEPT !.requests = s.requests]]

PlaceLimitOrder ==
    /\ pc = "fetch"
    /\ current_prices["XRP/BTC"] # NoPrice
    /\ \E side \in Sides : \E volume \in ValueVolumes : \E i \in 1..MaxOrdersPerSide :
         Install(Logged(place_limit_order(Machine, NoFault, "XRP/BTC", side,
                            [ok |-> TRUE, num |-> volume, den |-> 1],
                            LevelPriceNum(side, current_prices["XRP/BTC"],
                                TRADING_PAIRS("XRP/BTC").grid_interval, i),
                            1000, TRADING_PAIRS("XRP/BTC")).s,
                        "XRP/BTC"))
    /\ pc' = "placed"
    /\ UNCHANGED <<ticks, events, tick_log, tick_info, changed, faults,
                   balance_fault, trigger_in, trigger_out, last_nonce>>

NextValue == FetchPrices \/ EthTrades \/ PlaceLimitOrder

SpecValue == InitValue /\ [][NextValue]_vars

(***************************************************************************)
(* match_order_to_pair on its own: pair strings are drawn, in the upper    *)
(* and lower case and with the decorations the exchange uses, and the      *)
(* function is applied to each.                                            *)
(***************************************************************************)
MatchStrings ==
    {<<>>} \cup
    {a \o b \o c \o d :
        a \in {<<>>, <<"X">>, <<"Z">>, <<"x">>},
        b \in {<<"E","T","H">>, <<"e","t","h">>, <<"X","R","P">>, <<"R","P">>,
               <<"X","B","T">>},
        c \in {<<>>, <<"Z">>, <<"X">>, <<"/">>, <<"X","X">>},
        d \in {<<"U","S","D">>, <<"u","s","d">>, <<"X","B","T">>, <<"B","T","C">>,
               <<"B","T">>, <<"U","S","D","T">>}}

InitMatch ==
    /\ trigger_in \in MatchStrings
    /\ trigger_out = NoPair
    /\ pc = "match"
    /\ ex_balances \in InitialBalances
    /\ market = InitialMarket
    /\ open_orders = EmptyBag
    /\ counts_file = [p \in PairSet |-> NoCounts]
    /\ expected_order_counts = counts_file
    /\ balances = [a \in Assets |-> 0]
    /\ available_balances = [a \in Assets |-> 0]
    /\ current_prices = [p \in PairSet |-> NoPrice]
    /\ btc_usd_price = 0
    /\ grid_center_prices = [p \in PairSet |-> NoPrice]
    /\ last_reposition_time = [p \in PairSet |-> -1]
    /\ now = 0
    /\ ticks = 0
    /\ events = 0
    /\ grid_log = [p \in PairSet |-> NoGridLog]
    /\ tick_log = [p \in PairSet |-> NoTickLog]
    /\ tick_info = NoTickInfo
    /\ changed = FALSE
    /\ faults = 0
    /\ balance_fault = "none"
    /\ last_nonce = 0

MatchOrderToPair ==
    /\ pc = "match"
    /\ trigger_out' = match_order_to_pair(trigger_in)
    /\ pc' = "matched"
    /\ UNCHANGED <<balances, available_balances, current_prices, btc_usd_price,
                   grid_center_prices, last_reposition_time, expected_order_counts,
                   counts_file, open_orders, ex_balances, market, now, ticks,
                   events, grid_log, tick_log, tick_info, changed, faults,
                   balance_fault, trigger_in, last_nonce>>

NextMatch == MatchOrderToPair

SpecMatch == InitMatch /\ [][NextMatch]_vars

(***************************************************************************)
(* Properties.                                                             *)
(***************************************************************************)
\* the state right after start_trading built the grids, and the state at the
\* end of a tick that repositioned pair p
AfterStartup == pc = "balance" /\ ticks = 1
AfterReposition(p) == pc = "report" /\ tick_log[p].repo
EndOfTick == pc = "report"

OpenCounts(p) ==
    [buy |-> OpenCount(open_orders, p, "buy"), sell |-> OpenCount(open_orders, p, "sell")]

\* C1: after every create_grid_orders(pair) that returned success,
\* expected_order_counts[pair] holds, per side, the number of placements of
\* that call for which the exchange returned an order id (never the intended
\* counts), and grid_center_prices[pair] is the price the grid was built at;
\* right after startup these counts are the pair's orders open on the exchange
C1_GridCountsArePlacedCounts ==
    \A p \in PairSet :
        ((AfterStartup \/ AfterReposition(p)) /\ grid_log[p].ok) =>
            /\ expected_order_counts[p] =
                   [buy |-> grid_log[p].placed_buy, sell |-> grid_log[p].placed_sell]
            /\ grid_center_prices[p] = grid_log[p].price
            /\ (AfterStartup /\ events = 0) => expected_order_counts[p] = OpenCounts(p)

\* a grid was built of which a buy placement was rejected, and one whose
\* sell side was not affordable
C1_Witness ==
    /\ AfterStartup
    /\ \E p \in PairSet :
         /\ grid_log[p].ok
         /\ grid_log[p].placed_buy < grid_log[p].intended_buy
         /\ expected_order_counts[p].buy = grid_log[p].placed_buy
         /\ grid_log[p].placed_buy > 0

\* pair p went through fill replacement and top-up in the last tick
Handled(p) == tick_log[p].ran /\ ~tick_log[p].repo
\* the gaps the last tick saw: expected (after seeding and the clamp) minus observed
SellGap(p) == tick_log[p].exp_sell - tick_log[p].obs_sell
BuyGap(p) == tick_log[p].exp_buy - tick_log[p].obs_buy

ReplacementsPlaced(p) == tick_log[p].repl_buy_placed + tick_log[p].repl_sell_placed

\* C3: at the end of every tick in which replacement orders were placed for
\* p, expected_order_counts[p] is the buy and sell count of p's orders open
\* on the exchange (here: even in a run in which no exchange call ever failed)
C3_RefreshIsGroundTruth ==
    \A p \in PairSet :
        (EndOfTick /\ Handled(p) /\ faults = 0 /\ ReplacementsPlaced(p) > 0) =>
            expected_order_counts[p] = OpenCounts(p)

\* C4: when the last tick saw a gap on a side of p and placed no replacement
\* for it, the expected count of that side at the end of the tick is still
\* above the observed count (here: in a run in which no exchange call failed)
C4_FillNotMasked ==
    \A p \in PairSet :
        (EndOfTick /\ Handled(p) /\ faults = 0) =>
            /\ (SellGap(p) > 0 /\ tick_log[p].repl_buy_placed = 0) =>
                   expected_order_counts[p].sell > tick_log[p].obs_sell
            /\ (BuyGap(p) > 0 /\ tick_log[p].repl_sell_placed = 0) =>
                   expected_order_counts[p].buy > tick_log[p].obs_buy

\* C5: a tick that starts from the open orders, balances and prices the
\* previous tick ended with, and in which every exchange call succeeds, opens
\* no order and leaves expected_order_counts as it was
C5_TickIdempotent ==
    (/\ EndOfTick /\ tick_info.same
     /\ tick_info.fault = NoFault /\ balance_fault = "none") =>
        /\ open_orders = tick_info.orders_before
        /\ expected_order_counts = tick_info.before

\* C6: a pair that had no expected record at the start of the last tick, of
\* which no order matched while some order matched no pair, still has no
\* record at the end of the tick; a record it acquired by seeding alone holds
\* the observed counts
C6_SeedingOnlyWhenMatched ==
    \A p \in PairSet :
        (EndOfTick /\ ~tick_log[p].had) =>
            /\ ~SeedAllowed([buy |-> tick_log[p].obs_buy, sell |-> tick_log[p].obs_sell],
                            tick_log[p].unmatched)
                   => expected_order_counts[p] = NoCounts
            /\ tick_log[p].exp_buy # -1 =>
                   /\ tick_log[p].exp_buy = tick_log[p].obs_buy
                   /\ tick_log[p].exp_sell = tick_log[p].obs_sell

\* C7: the first loop of a tick resets an expected count above
\* max_orders_per_side to the observed count of that side and leaves any
\* other expected count as it was; no replacement is attempted for a side
\* whose expected count was reset
C7_DefensiveClamp ==
    \A p \in PairSet :
        LET lg == tick_log[p]
            max_orders == TRADING_PAIRS(p).max_orders_per_side
        IN  (EndOfTick /\ lg.had) =>
                /\ lg.exp_buy = (IF lg.exp0_buy > max_orders THEN lg.obs_buy
                                 ELSE lg.exp0_buy)
                /\ lg.exp_sell = (IF lg.exp0_sell > max_orders THEN lg.obs_sell
                                  ELSE lg.exp0_sell)
                /\ (Handled(p) /\ lg.exp0_sell > max_orders) => lg.repl_buy_tried = 0
                /\ (Handled(p) /\ lg.exp0_buy > max_orders) => lg.repl_sell_tried = 0

\* a pair's expected sell count was above the maximum and was reset to the
\* sells observed, while its expected buy count, different from the buys
\* observed, stayed
C7_Witness ==
    \E p \in PairSet :
        /\ EndOfTick /\ Handled(p) /\ tick_log[p].had
        /\ tick_log[p].exp0_sell > TRADING_PAIRS(p).max_orders_per_side
        /\ tick_log[p].exp_sell = tick_log[p].obs_sell
        /\ tick_log[p].exp0_buy # tick_log[p].obs_buy
        /\ tick_log[p].exp_buy = tick_log[p].exp0_buy
        /\ tick_log[p].repl_buy_tried = 0

\* the intended trigger: deviation in percent above interval (percent) times
\* max_orders_per_side plus threshold (percent)
PercentBoundExceeded(config, current_price, grid_center) ==
    Abs(current_price - grid_center) * 1000
        > (config.grid_interval * config.max_orders_per_side
           + 10 * config.grid_reposition_threshold) * grid_center

\* C8: check_grid_reposition_needed answers true iff repositioning is
\* enabled, the cooldown has elapsed and the deviation in percent is above
\* interval * max_orders_per_side + threshold (32% for ETH/USD as shipped)
C8_TriggerIffAbovePercentBound ==
    pc = "checked" =>
        (trigger_out <=>
            /\ trigger_in.dynamic
            /\ CooldownElapsed(TriggerConfig(trigger_in), trigger_in.time,
                               trigger_in.last)
            /\ PercentBoundExceeded(TriggerConfig(trigger_in), trigger_in.price,
                                    trigger_in.center))

\* C9: in a tick that repositioned p no replacement and no top-up placement
\* was attempted for p, and p's open orders are those create_grid_orders
\* opened (on top of the old ones when the cancellation failed)
C9_RepositionExcludesHandling ==
    \A p \in PairSet :
        AfterReposition(p) =>
            /\ tick_log[p].repl_buy_tried = 0 /\ tick_log[p].repl_sell_tried = 0
            /\ tick_log[p].top_buy_tried = 0 /\ tick_log[p].top_sell_tried = 0
            /\ \A side \in Sides :
                 OpenCount(open_orders, p, side) =
                     (IF tick_info.fault.kind = "cancel"
                      THEN OpenCount(tick_info.orders_before, p, side) ELSE 0)
                     + (IF side = "buy" THEN grid_log[p].placed_buy
                        ELSE grid_log[p].placed_sell)

\* a pair was repositioned in a tick that saw one of its sells missing and
\* fewer buys than the maximum, and the new grid has orders
C9_Witness ==
    \E p \in PairSet :
        /\ AfterReposition(p)
        /\ tick_log[p].obs_sell < tick_log[p].exp_sell
        /\ tick_log[p].obs_buy < TRADING_PAIRS(p).max_orders_per_side
        /\ tick_log[p].grid_placed > 0

\* C10: after every successful balance refresh, for every asset,
\* available = total - locked, locked being what the open orders draw on
\* that asset
C10_AvailableIsTotalMinusLocked ==
    (pc = "prices" /\ balance_fault = "none") =>
        \A a \in Assets :
            available_balances[a] = balances[a] - ExLocked(open_orders, a)

\* the place_limit_order calls of the last grid build and of the last tick
\* of pair p, as the exchange side saw them
RequestLogs(p) == {grid_log[p].requests, tick_log[p].requests}
SentIn(requests) == {i \in DOMAIN requests : requests[i].sent}

\* the value of a request in the unit min_order_size is configured in: the
\* volume for ETH/USD, the USD value at the bot's BTC/USD price for XRP/BTC
ComparisonValue(r) ==
    IF r.pair = S_ETHUSD THEN r.vol ELSE r.vol * r.price * r.btc_usd
ConfiguredMinimum(r) ==
    IF r.pair = S_ETHUSD THEN TRADING_PAIRS("ETH/USD").min_order_size
    ELSE TRADING_PAIRS("XRP/BTC").min_order_size

\* C11: an AddOrder request is made for a place_limit_order call exactly when
\* the rounded volume and price are worth at least min_order_size, on every
\* path (grid, replacement, top-up); the exchange receives no other request
C11_MinimumSizeEnforced ==
    \A p \in PairSet :
        /\ \A requests \in RequestLogs(p) :
             \A i \in DOMAIN requests :
                 requests[i].sent <=>
                     ComparisonValue(requests[i]) >= ConfiguredMinimum(requests[i])
        /\ grid_log[p].calls = Cardinality(SentIn(grid_log[p].requests))

\* in one tick a replacement or top-up order was refused for its size and
\* another one was sent
C11_Witness ==
    \E p \in PairSet :
        /\ EndOfTick
        /\ \E i \in DOMAIN tick_log[p].requests : ~tick_log[p].requests[i].sent
        /\ \E i \in DOMAIN tick_log[p].requests : tick_log[p].requests[i].sent

IsBuy(r) == r.type = "buy"
IsSell(r) == r.type = "sell"
\* the place_limit_order calls of the last grid build of p, per side, in order
GridBuys(p) == SelectSeq(grid_log[p].requests, IsBuy)
GridSells(p) == SelectSeq(grid_log[p].requests, IsSell)

\* currentPrice * (1 - i * interval/100) and currentPrice * (1 + i * interval/100),
\* interval in tenths of a percent, rounded to the price precision
BuyLevel(current_price, interval, i) ==
    PyRound(current_price * (1000 - i * interval), 1000)
SellLevel(current_price, interval, i) ==
    PyRound(current_price * (1000 + i * interval), 1000)

\* C12: the i-th buy of a grid build is priced at currentPrice * (1 - i *
\* interval/100) and the i-th sell at currentPrice * (1 + i * interval/100), for
\* as many levels as the side was meant to have (or none when no order could
\* be sized); buy prices strictly decrease below the price, sell prices
\* strictly increase above it; at 1% around 100.00 the levels are 99, 98, 97
\* and 101, 102, 103
C12_GridSpacing ==
    /\ \A p \in PairSet :
         grid_log[p].ok =>
             LET g == grid_log[p]
                 interval == TRADING_PAIRS(p).grid_interval
             IN  /\ Len(GridBuys(p)) \in {0, g.intended_buy}
                 /\ Len(GridSells(p)) \in {0, g.intended_sell}
                 /\ \A i \in DOMAIN GridBuys(p) :
                      /\ GridBuys(p)[i].price = BuyLevel(g.price, interval, i)
                      /\ GridBuys(p)[i].price < g.price
                      /\ i > 1 => GridBuys(p)[i].price < GridBuys(p)[i - 1].price
                 /\ \A i \in DOMAIN GridSells(p) :
                      /\ GridSells(p)[i].price = SellLevel(g.price, interval, i)
                      /\ GridSells(p)[i].price > g.price
                      /\ i > 1 => GridSells(p)[i].price > GridSells(p)[i - 1].price
    /\ \A i \in 1..MaxOrdersPerSide :
         /\ round_price(LevelPriceNum("buy", 10000, 10, i), 1000) = 10000 - 100 * i
         /\ round_price(LevelPriceNum("sell", 10000, 10, i), 1000) = 10000 + 100 * i

\* a grid was built with three buys and three sells
C12_Witness ==
    \E p \in PairSet :
        /\ AfterStartup /\ grid_log[p].ok
        /\ Len(GridBuys(p)) = 3 /\ Len(GridSells(p)) = 3
        /\ grid_log[p].placed_buy = 3 /\ grid_log[p].placed_sell = 3

\* what one order of a side must at least draw on the side's balance, as the
\* pair num/den: available / (num/den) is the number of orders the balance
\* supports (g is the log of a grid build)
BalanceOf(p, side, g) == IF side = "buy" THEN g.base_balance ELSE g.quote_balance
SupportedNum(p, side, g) ==
    IF p = "ETH/USD" THEN BalanceOf(p, side, g)
    ELSE IF side = "buy" THEN BalanceOf(p, side, g) * g.btc_usd
    ELSE BalanceOf(p, side, g) * g.price * g.btc_usd
SupportedDen(p, side, g) ==
    IF p = "ETH/USD" /\ side = "buy" THEN g.price * TRADING_PAIRS(p).min_order_size
    ELSE TRADING_PAIRS(p).min_order_size
GridAttempts(p, side) == IF side = "buy" THEN Len(GridBuys(p)) ELSE Len(GridSells(p))

\* C13, as stated: a grid build attempts, per side,
\* min(max_orders_per_side, floor(available balance / per-order minimum))
\* orders
C13_AffordableLadder ==
    \A p \in PairSet : \A side \in Sides :
        grid_log[p].ok =>
            GridAttempts(p, side) =
                Min(TRADING_PAIRS(p).max_orders_per_side,
                    SupportedNum(p, side, grid_log[p])
                        \div SupportedDen(p, side, grid_log[p]))

\* C13, amended: a grid build attempts, per side,
\* min(max_orders_per_side, floor(95% of the available balance / per-order
\* minimum)) orders, at levels 1 to that number, never more than
\* max_orders_per_side, and records as expected count the orders opened
C13_AffordableLadderWithMargin ==
    \A p \in PairSet : \A side \in Sides :
        grid_log[p].ok =>
            /\ GridAttempts(p, side) =
                   Min(TRADING_PAIRS(p).max_orders_per_side,
                       (19 * SupportedNum(p, side, grid_log[p]))
                           \div (20 * SupportedDen(p, side, grid_log[p])))
            /\ GridAttempts(p, side) \in 0..TRADING_PAIRS(p).max_orders_per_side
            /\ (AfterStartup \/ AfterReposition(p)) =>
                   /\ expected_order_counts[p].buy = grid_log[p].placed_buy
                   /\ expected_order_counts[p].sell = grid_log[p].placed_sell
                   /\ grid_log[p].placed_buy <= GridAttempts(p, "buy")
                   /\ grid_log[p].placed_sell <= GridAttempts(p, "sell")

\* a grid was built on a balance that supports two buys, with a maximum of
\* three: buys at levels 1 and 2, expected buy count 2
C13_Witness ==
    \E p \in PairSet :
        /\ AfterStartup /\ grid_log[p].ok
        /\ TRADING_PAIRS(p).max_orders_per_side > 2
        /\ Len(GridBuys(p)) = 2
        /\ GridBuys(p)[1].price = BuyLevel(grid_log[p].price,
                                           TRADING_PAIRS(p).grid_interval, 1)
        /\ GridBuys(p)[2].price = BuyLevel(grid_log[p].price,
                                           TRADING_PAIRS(p).grid_interval, 2)
        /\ expected_order_counts[p].buy = 2

\* C14: after every create_grid_orders and at the end of every tick,
\* including a tick that left through its error path after it changed the
\* counts, the persisted counts are the in-memory counts
C14_PersistedEqualsInMemory ==
    (AfterStartup \/ EndOfTick) => counts_file = expected_order_counts

\* C14 without the error path: at the end of every tick that did not leave
\* through its except clause the persisted counts are the in-memory counts
C14_PersistedUnlessRaised ==
    ((AfterStartup \/ EndOfTick) /\ tick_info.fault.kind # "malformed")
        => counts_file = expected_order_counts

\* the open orders of the pairs the bot trades, by the pair string the
\* exchange returns for them
OwnOrdersIn(book) ==
    [o \in {x \in BagToSet(book) : x.pair \in {EchoPair(p) : p \in PairSet}} |->
        CopiesIn(o, book)]
UnresolvedIn(book) ==
    {o \in BagToSet(book) : o.pair \notin {EchoPair(p) : p \in PairSet}}
\* an unresolved order is in no pair's observed counts
C15_NotCounted ==
    (EndOfTick /\ tick_info.fault.kind # "open") =>
        \A p \in PairSet :
            /\ tick_log[p].obs_buy = OpenCount(OwnOrdersIn(tick_info.orders_seen), p, "buy")
            /\ tick_log[p].obs_sell = OpenCount(OwnOrdersIn(tick_info.orders_seen), p, "sell")
\* every unresolved order is in the unmatched list
C15_Reported ==
    (EndOfTick /\ tick_info.fault.kind # "open") =>
        \A p \in PairSet :
            tick_log[p].unmatched = Cardinality(UnresolvedIn(tick_info.orders_seen))
\* an unresolved order locks nothing in the bot's ledger
C15_NotLocked ==
    (pc = "prices" /\ balance_fault = "none") =>
        \A a \in Assets :
            available_balances[a] = balances[a] - ExLocked(OwnOrdersIn(open_orders), a)

\* C15: an open order whose pair string resolves to no configured pair is in
\* no pair's observed counts, is in the unmatched list of the tick, and locks
\* nothing in the balance computation
C15_MatchingFailureIsolated ==
    C15_NotCounted /\ C15_Reported /\ C15_NotLocked

\* C16: a tick whose open-orders fetch failed places no replacement order
\* and leaves every pair's expected counts as they were; a tick whose
\* re-fetch after a replacement failed does not set the expected counts to
\* zero
C16_FailedFetchNotReadAsFills ==
    /\ (EndOfTick /\ tick_info.fault.kind = "open") =>
           \A p \in PairSet :
               /\ tick_log[p].repl_buy_tried = 0
               /\ tick_log[p].repl_sell_tried = 0
               /\ expected_order_counts[p] = tick_info.before[p]
    /\ (EndOfTick /\ tick_info.fault.kind = "refetch") =>
           \A p \in PairSet :
               ReplacementsPlaced(p) > 0 =>
                   expected_order_counts[p] # [buy |-> 0, sell |-> 0]

\* no call of the run failed, except that the exchange refused one order of
\* the last tick
OnlyRejections == faults = 0 \/ tick_info.fault.kind = "rej"

\* C17: at the end of a tick that placed replacement orders for p, no side
\* of p has an expected count above its open orders, so that the next tick
\* infers no fill for p unless another order disappears (here: even in a run
\* in which every fetch succeeded)
C17_FillReplacedAtMostOnce ==
    \A p \in PairSet :
        (EndOfTick /\ OnlyRejections /\ Handled(p) /\ ReplacementsPlaced(p) > 0) =>
            /\ expected_order_counts[p].buy <= OpenCounts(p).buy
            /\ expected_order_counts[p].sell <= OpenCounts(p).sell

\* every open order of the account is an order of a configured pair: only
\* the bot placed orders
OnlyEngineOrders == UnresolvedIn(open_orders) = {}

\* C18: as long as only the bot places orders, no side of a pair has more
\* open orders than the pair's max_orders_per_side (here: even in a run in
\* which no exchange call ever failed)
C18_OrderCountBound ==
    \A p \in PairSet :
        (OnlyEngineOrders /\ faults = 0) =>
            /\ OpenCounts(p).buy <= TRADING_PAIRS(p).max_orders_per_side
            /\ OpenCounts(p).sell <= TRADING_PAIRS(p).max_orders_per_side

\* C19: at the end of startup and of every tick, every pair with expected
\* counts has, on each side, an expected count of at least the side's open
\* orders (here: even in a run in which no exchange call ever failed)
C19_ExpectedCoversOpen ==
    \A p \in PairSet :
        ((AfterStartup \/ EndOfTick) /\ faults = 0
             /\ expected_order_counts[p] # NoCounts) =>
            /\ expected_order_counts[p].buy >= OpenCounts(p).buy
            /\ expected_order_counts[p].sell >= OpenCounts(p).sell

\* C20: after a reposition of p that returned success, p's open orders are
\* the orders the new grid opened, no order of the old grid among them, and
\* the expected counts are their counts
C20_NoOverlappingGrids ==
    \A p \in PairSet :
        (AfterReposition(p) /\ tick_log[p].repo_ok) =>
            /\ OpenCounts(p) =
                   [buy |-> grid_log[p].placed_buy, sell |-> grid_log[p].placed_sell]
            /\ expected_order_counts[p] = OpenCounts(p)

\* the step of the main loop that runs monitor_and_replace_orders
TickStep == pc = "monitor" /\ pc' = "report"

\* C21: a reposition of p starts only when p was never repositioned or at
\* least grid_reposition_cooldown seconds after its last successful
\* reposition, and last_reposition_time[p] changes only in a tick that
\* repositioned p with a successful grid re-creation, to the time of that tick
C21_Cooldown ==
    [][\A p \in PairSet :
          /\ (TickStep /\ tick_log'[p].repo /\ last_reposition_time[p] # -1) =>
                 now - last_reposition_time[p]
                     >= TRADING_PAIRS(p).grid_reposition_cooldown
          /\ last_reposition_time'[p] # last_reposition_time[p] =>
                 /\ TickStep
                 /\ tick_log'[p].repo /\ tick_log'[p].repo_ok
                 /\ last_reposition_time'[p] = now]_vars

\* a tick left p alone although the price was beyond the reposition bound,
\* because p had been repositioned less than the cooldown before
C21_Witness ==
    \E p \in PairSet :
        /\ EndOfTick /\ Handled(p)
        /\ last_reposition_time[p] # -1
        /\ now - last_reposition_time[p] < TRADING_PAIRS(p).grid_reposition_cooldown
        /\ TRADING_PAIRS(p).dynamic_grid_reposition
        /\ DeviationExceeds(TRADING_PAIRS(p), current_prices[p], grid_center_prices[p])

\* C22: a tick in which the reposition of p failed leaves p's grid centre,
\* last reposition time and expected counts (as the first loop of the tick
\* left them) unchanged, still handles every other pair that has a price and
\* saves the counts; and the tick after a failed reposition repositions p
\* again when the trigger condition holds and the tick gets to p
C22_RepositionFailure ==
    [][\A p \in PairSet :
          /\ (TickStep /\ tick_log'[p].repo /\ ~tick_log'[p].repo_ok) =>
                 /\ grid_center_prices'[p] = grid_center_prices[p]
                 /\ last_reposition_time'[p] = last_reposition_time[p]
                 /\ expected_order_counts'[p] =
                        [buy |-> tick_log'[p].exp_buy, sell |-> tick_log'[p].exp_sell]
                 /\ \A q \in PairSet \ {p} :
                        current_prices[q] # NoPrice => tick_log'[q].ran
                 /\ counts_file' = expected_order_counts'
          /\ (TickStep /\ tick_log[p].repo /\ ~tick_log[p].repo_ok
                 /\ tick_info'.fault.kind # "malformed"
                 /\ check_grid_reposition_needed(Machine, p, TRADING_PAIRS(p))) =>
                 tick_log'[p].repo]_vars

\* the reposition of a pair failed and the other pair was handled in the
\* same tick
C22_Witness ==
    \E p \in PairSet :
        /\ EndOfTick
        /\ tick_log[p].repo /\ ~tick_log[p].repo_ok
        /\ grid_center_prices[p] # current_prices[p]
        /\ \E q \in PairSet \ {p} : Handled(q)

\* the open orders of p on a side at a price
OpenAt(p, side, price) ==
    {o \in BagToSet(open_orders) :
        o.pair = EchoPair(p) /\ o.type = side /\ o.price = price}
Intended(p, side) ==
    IF side = "buy" THEN grid_log[p].intended_buy ELSE grid_log[p].intended_sell
Placed(p, side) ==
    IF side = "buy" THEN grid_log[p].placed_buy ELSE grid_log[p].placed_sell
\* the orders the last tick opened on a side of p, by the tick's counters
PlacedInTick(p, side) ==
    IF side = "buy" THEN tick_log[p].repl_buy_placed + tick_log[p].top_buy_placed
    ELSE tick_log[p].repl_sell_placed + tick_log[p].top_sell_placed

\* C23: a grid build attempts every level of a side it sized, whatever
\* placements fail, and counts as placed the orders that were opened; a
\* tick's replacement and top-up batches count as placed the orders they
\* opened, and a replacement batch attempts all its levels or none
C23_PlacementFailureLocal ==
    \A p \in PairSet : \A side \in Sides :
        /\ grid_log[p].ok => GridAttempts(p, side) \in {0, Intended(p, side)}
        /\ (AfterStartup /\ events = 0 /\ grid_log[p].ok) =>
               /\ Placed(p, side) = OpenCount(open_orders, p, side)
               /\ expected_order_counts[p][side] = Placed(p, side)
        /\ (EndOfTick /\ Handled(p)) =>
               /\ OpenCount(open_orders, p, side) =
                      OpenCount(tick_info.orders_before, p, side) + PlacedInTick(p, side)
               /\ tick_log[p].repl_buy_tried \in {0, SellGap(p)}
               /\ tick_log[p].repl_sell_tried \in {0, BuyGap(p)}

\* the first of three buy levels of a new grid was refused by the exchange;
\* the second and third were placed and are open, and two buys are expected
C23_Witness ==
    \E p \in PairSet :
        /\ AfterStartup /\ events = 0 /\ grid_log[p].ok
        /\ Len(GridBuys(p)) = 3
        /\ grid_log[p].placed_buy = 2
        /\ OpenAt(p, "buy", GridBuys(p)[1].price) = {}
        /\ OpenAt(p, "buy", GridBuys(p)[2].price) # {}
        /\ OpenAt(p, "buy", GridBuys(p)[3].price) # {}
        /\ expected_order_counts[p].buy = 2

\* the count a side of p was seen with by the last tick, and what its
\* top-up step attempted
Observed(p, side) == IF side = "buy" THEN tick_log[p].obs_buy ELSE tick_log[p].obs_sell
TopUpTried(p, side) ==
    IF side = "buy" THEN tick_log[p].top_buy_tried ELSE tick_log[p].top_sell_tried
\* floor(95% of the available balance / per-order minimum) at the top-up
TopUpAffordable(p, side) ==
    (19 * SupportedNum(p, side, tick_log[p].top[side]))
        \div (20 * SupportedDen(p, side, tick_log[p].top[side]))

\* C24: the top-up of a side seen with c orders attempts
\* n = max(0, min(affordable count, max_orders_per_side) - c) orders when an
\* order can be sized and none otherwise, below min_orders_per_side as well
\* as between min and max; c + n never exceeds max_orders_per_side and
\* nothing is attempted when c is at the maximum
C24_TopUp ==
    \A p \in PairSet : \A side \in Sides :
        (EndOfTick /\ Handled(p) /\ tick_log[p].top[side].ran) =>
            /\ TopUpTried(p, side) =
                   (IF tick_log[p].top[side].sized
                    THEN Max(0, Min(TopUpAffordable(p, side),
                                    TRADING_PAIRS(p).max_orders_per_side)
                                - Observed(p, side))
                    ELSE 0)
            /\ TopUpTried(p, side) > 0 =>
                   Observed(p, side) + TopUpTried(p, side)
                       <= TRADING_PAIRS(p).max_orders_per_side
            /\ Observed(p, side) >= TRADING_PAIRS(p).max_orders_per_side =>
                   TopUpTried(p, side) = 0

\* a side seen between the minimum and the maximum was topped up
C24_Witness ==
    \E p \in PairSet : \E side \in Sides :
        /\ EndOfTick /\ Handled(p)
        /\ Observed(p, side) >= TRADING_PAIRS(p).min_orders_per_side
        /\ Observed(p, side) < TRADING_PAIRS(p).max_orders_per_side
        /\ TopUpTried(p, side) > 0
        /\ Observed(p, side) + TopUpTried(p, side)
               = TRADING_PAIRS(p).max_orders_per_side

\* the calls of the last tick of p for which an AddOrder request was made
Submitted(p) == SentIn(tick_log[p].requests)

\* C25: the orders a tick submits for a pair and side are at distinct grid
\* levels, hence at distinct prices, replacement and top-up orders included;
\* stated for the runs in which no API call has failed
C25_NoDuplicateLevels ==
    \A p \in PairSet :
        (EndOfTick /\ Handled(p) /\ faults = 0) =>
            \A i, j \in Submitted(p) :
                (i < j /\ tick_log[p].requests[i].type = tick_log[p].requests[j].type)
                    => tick_log[p].requests[i].price # tick_log[p].requests[j].price

\* the replacement orders of the last tick of p on a side: the first calls of
\* that side, as many as the fill branch made
Replacements(p, side) ==
    IF side = "buy"
    THEN SubSeq(SelectSeq(tick_log[p].requests, IsBuy), 1, tick_log[p].repl_buy_tried)
    ELSE SubSeq(SelectSeq(tick_log[p].requests, IsSell), 1, tick_log[p].repl_sell_tried)
\* what a submitted order commits of its funding asset
Commits(r) ==
    IF ~r.sent THEN 0 ELSE IF r.type = "buy" THEN r.vol * r.price ELSE r.vol
RECURSIVE Committed(_)
Committed(requests) ==
    IF requests = <<>> THEN 0
    ELSE Commits(Head(requests)) + Committed(Tail(requests))
\* the available balance the replacement orders of a side were sized on
ReplacementFunds(p, side) ==
    IF side = "buy" THEN tick_log[p].repl_buy_funds ELSE tick_log[p].repl_sell_funds

\* C26: the replacement orders a tick submits on a side commit no more than
\* the available balance of the funding asset as the preceding balance
\* refresh computed it; stated for the runs in which no API call has failed
C26_ReplacementWithinFunds ==
    \A p \in PairSet : \A side \in Sides :
        (EndOfTick /\ Handled(p) /\ faults = 0) =>
            Committed(Replacements(p, side)) <= ReplacementFunds(p, side)

\* what the sizer reads for pair p in the present state
SizerInputs(p) ==
    [base_balance |-> available_balances[TRADING_PAIRS(p).base_asset],
     quote_balance |-> available_balances[TRADING_PAIRS(p).quote_asset],
     btc_usd |-> BtcUsdOrFallback(Machine), price |-> current_prices[p]]
Sized(p, side, n) ==
    calculate_order_volume(Machine, p, side, TRADING_PAIRS(p), current_prices[p], n)
OrderCounts == 1..MaxOrdersPerSide

\* C27: for n orders of a side calculate_order_volume returns the volume
\* v = 95% of the available balance of the funding asset / n (divided by the
\* current price for buys), so that n orders of v consume exactly 95% of
\* that balance, and returns no volume exactly when that share is worth less
\* than min_order_size; a volume it returns is therefore never below the
\* minimum
C27_SizerVolume ==
    \A p \in PairSet : \A side \in Sides : \A n \in OrderCounts :
        current_prices[p] # NoPrice =>
            /\ Sized(p, side, n).ok <=>
                   19 * SupportedNum(p, side, SizerInputs(p))
                       >= 20 * n * SupportedDen(p, side, SizerInputs(p))
            /\ Sized(p, side, n).ok =>
                   /\ Sized(p, side, n).num = 19 * BalanceOf(p, side, SizerInputs(p))
                   /\ Sized(p, side, n).den =
                          20 * n * (IF side = "buy" THEN current_prices[p] ELSE 1)

\* a top-up was sized for the orders it needed on balances that are too
\* small for max_orders_per_side orders of the minimum size
C27_Witness ==
    \E p \in PairSet : \E side \in Sides :
        /\ EndOfTick /\ Handled(p)
        /\ tick_log[p].top[side].sized
        /\ TopUpTried(p, side) >= 1
        /\ BalanceOf(p, side, tick_log[p].top[side]) = BalanceOf(p, side, SizerInputs(p))
        /\ Sized(p, side, TopUpTried(p, side)).ok
        /\ ~Sized(p, side, MaxOrdersPerSide).ok

\* C28: a volume calculate_order_volume returned passes the minimum-size
\* check of place_limit_order at every level it is placed at: no
\* place_limit_order call of a grid build or of a tick is refused for its
\* size
C28_SizingAndValidationAgree ==
    \A p \in PairSet :
        \A requests \in RequestLogs(p) :
            \A i \in DOMAIN requests : requests[i].sent

\* the place_limit_order call made on its own, and the conversion price the
\* chain names for it: the BTC/USD price when the ticker has delivered one,
\* else 18 times the tracked ETH/USD price, else the constant
ValueRequest == grid_log["XRP/BTC"].requests[1]
AuxiliaryDelivered == faults < ticks
ChainPrice ==
    IF AuxiliaryDelivered THEN market["BTC/USD"]
    ELSE IF current_prices["ETH/USD"] # NoPrice
         THEN EstimateBtcUsd(current_prices["ETH/USD"])
         ELSE FALLBACK_BTC_USD

\* C29: an XRP/BTC order passes the check of place_limit_order exactly when
\* volume * price * conversion price is at least min_order_size, the
\* conversion price being the BTC/USD price, or 18 times the tracked ETH/USD
\* price when no BTC/USD price is available, or 90000 when that is missing too
C29_ConversionChain ==
    pc = "placed" =>
        (ValueRequest.sent <=>
            ValueRequest.vol * ValueRequest.price * ChainPrice
                >= TRADING_PAIRS("XRP/BTC").min_order_size)

\* the three ways a pair string names a configured pair
NativeOf(p) == Upper(TRADING_PAIRS(p).kraken_pair)
EqualsNative(str, p) == Upper(str) = NativeOf(p)
AliasOf(str, p) ==
    Upper(str) \in DOMAIN pair_mappings /\ pair_mappings[Upper(str)] = NativeOf(p)
EqualsUndecorated(str, p) == StripXZ(Upper(str)) = StripXZ(NativeOf(p))
ResolvesTo(str, p) ==
    EqualsNative(str, p) \/ AliasOf(str, p) \/ EqualsUndecorated(str, p)

FundingAsset(p, side) ==
    IF side = "buy" THEN TRADING_PAIRS(p).base_asset ELSE TRADING_PAIRS(p).quote_asset

\* C31: the balance computation locks an open order against the assets of
\* pair P exactly when match_order_to_pair resolves the order's pair string
\* to P
C31_LedgerMatchesResolution ==
    pc = "matched" =>
        \A p \in PairSet : \A side \in Sides :
            LedgerAssetOf(trigger_in, side) = FundingAsset(p, side)
                <=> trigger_out = p

\* C32: after start-up every pair either has no expected counts or has the
\* counts of the orders its start-up grid placed in this session, whatever
\* the counts file of an earlier session held and even when the pair's grid
\* creation failed
C32_StaleCountsDiscarded ==
    AfterStartup =>
        \A p \in PairSet :
            \/ expected_order_counts[p] = NoCounts
            \/ /\ grid_log[p].ok
               /\ expected_order_counts[p] =
                      [buy |-> grid_log[p].placed_buy, sell |-> grid_log[p].placed_sell]

\* the positions of the main loop
LoopPositions == {"balance", "prices", "monitor", "report", "sleep"}

\* C33: a failed exchange call does not stop the main loop.  A balance
\* refresh that failed leaves the balances as they were and the loop goes on
\* to the price refresh; a price refresh, failed or not, is followed by
\* reconciliation, and every price it did not fetch stays the last one
\* known; reconciliation, whatever call failed in it, is followed by the
\* report and the sleep; and the loop, once entered, is never left.
C33_FailedCallKeepsLoop ==
    [][/\ pc \in LoopPositions => pc' \in LoopPositions
       /\ (pc = "balance" /\ pc' # pc) =>
              /\ pc' = "prices"
              /\ balance_fault' = "bal" =>
                     /\ balances' = balances
                     /\ available_balances' = available_balances
       /\ pc = "prices" =>
              /\ pc' = "monitor"
              /\ \A p \in PairSet : current_prices'[p] \in {market[p], current_prices[p]}
       /\ pc = "monitor" => pc' = "report" /\ tick_info'.n = ticks
       /\ pc = "report" => pc' = "sleep"]_vars

\* a tick whose balance refresh failed has reconciled a pair, and the next
\* tick has begun
C33_Witness ==
    /\ pc = "balance"
    /\ ticks >= 2
    /\ balance_fault = "bal"
    /\ tick_info.n = ticks - 1
    /\ \E p \in PairSet : tick_log[p].ran

\* the order of the positions of the program
PositionOrder ==
    {<<"start", "balance">>, <<"start", "stopped">>, <<"balance", "prices">>,
     <<"prices", "monitor">>, <<"monitor", "report">>, <<"report", "sleep">>,
     <<"sleep", "balance">>}

\* the first pair's fill branch placed an order and its re-fetch raised
FirstPairRaised(info, lg) ==
    /\ info.fault = [kind |-> "malformed", k |-> 1]
    /\ lg[Pairs[1]].repl_buy_placed + lg[Pairs[1]].repl_sell_placed > 0

\* C34: the steps of an iteration run in the order balance refresh, price
\* refresh, reposition check and reconciliation, report, sleep, and the next
\* iteration begins only after the sleep; the expected counts change in
\* reconciliation only, which therefore acts after the two refreshes of
\* its own iteration; the requests made while a pair is processed are that
\* pair's, and when the first pair's processing ended the tick the second
\* pair's does not begin.
C34_TickOrder ==
    [][/\ pc' # pc => <<pc, pc'>> \in PositionOrder
       /\ ticks' # ticks => (pc \in {"start", "sleep"} /\ ticks' = ticks + 1)
       /\ expected_order_counts' # expected_order_counts => pc \in {"start", "monitor"}
       /\ pc = "monitor" =>
              /\ tick_info'.n = ticks
              /\ \A p \in PairSet : \A i \in DOMAIN tick_log'[p].requests :
                     tick_log'[p].requests[i].pair = EchoPair(p)
              /\ FirstPairRaised(tick_info', tick_log') => ~tick_log'[Pairs[2]].ran]_vars

\* a second iteration has processed both pairs and made requests for each
C34_Witness ==
    /\ pc = "sleep"
    /\ ticks >= 2
    /\ \A p \in PairSet : tick_log[p].ran /\ tick_log[p].requests # <<>>

\* an iteration that the first pair's processing ended
C34_WitnessRaised == pc = "report" /\ FirstPairRaised(tick_info, tick_log)

(***************************************************************************)
(* _save_expected_counts and _load_expected_counts on their own.  Here     *)
(* counts_file is the text of the file, a sequence of JSON tokens, and a   *)
(* run is one save, which may raise or be cut short by the end of the      *)
(* process, followed by the load of the next process.                      *)
(***************************************************************************)
\* the decimal digits json writes for a count
Digits == <<"0", "1", "2", "3", "4", "5">>

\* json.dump(self.expected_order_counts, f): the tokens in the order written
json_dump(counts) ==
    LET entry(p) == IF counts[p] = NoCounts THEN <<>>
                    ELSE <<p, "{", "buy", Digits[counts[p].buy + 1],
                           "sell", Digits[counts[p].sell + 1], "}">>
    IN  <<"{">> \o entry(Pairs[1]) \o entry(Pairs[2]) \o <<"}">>

\* the entries of a JSON object from token i on; ok is FALSE where json.load raises
RECURSIVE JsonEntries(_, _, _)
JsonEntries(text, i, counts) ==
    LET num(tok) == CHOOSE n \in 0..(Len(Digits) - 1) : Digits[n + 1] = tok
        digit(tok) == \E n \in DOMAIN Digits : Digits[n] = tok
    IN  IF i > Len(text) THEN [ok |-> FALSE, counts |-> counts]
        ELSE IF text[i] = "}" THEN [ok |-> i = Len(text), counts |-> counts]
        ELSE IF /\ i + 6 <= Len(text)
                /\ text[i] \in PairSet
                /\ text[i + 1] = "{" /\ text[i + 2] = "buy" /\ digit(text[i + 3])
                /\ text[i + 4] = "sell" /\ digit(text[i + 5]) /\ text[i + 6] = "}"
        THEN JsonEntries(text, i + 7,
                         [counts EXCEPT ![text[i]] = [buy |-> num(text[i + 3]),
                                                      sell |-> num(text[i + 5])]])
        ELSE [ok |-> FALSE, counts |-> counts]

\* json.load(f)
json_load(text) ==
    IF Len(text) >= 1 /\ text[1] = "{"
    THEN JsonEntries(text, 2, [p \in PairSet |-> NoCounts])
    ELSE [ok |-> FALSE, counts |-> [p \in PairSet |-> NoCounts]]

\* no file at the path
NoFile == <<"ENOENT">>

\* _load_expected_counts in a new process, whose counts start as {}
_load_expected_counts(text) ==
    IF text # NoFile /\ json_load(text).ok THEN json_load(text).counts
    ELSE [p \in PairSet |-> NoCounts]

\* a variant in which what the save raises reaches its caller
AfterSaveUncaught(raised, outcome) == ~raised /\ outcome

\* except Exception in _save_expected_counts: a warning, the caller goes on
AfterSave(raised, outcome) == outcome

InitSave ==
    /\ expected_order_counts \in
          [PairSet -> {NoCounts, [buy |-> 2, sell |-> 3], [buy |-> 3, sell |-> 0]}]
    /\ \E old \in [PairSet -> {NoCounts, [buy |-> 1, sell |-> 1]}] :
          counts_file \in {NoFile, json_dump(old)}
    /\ \E caller \in {"create_grid_orders", "monitor_and_replace_orders"} :
          trigger_in = [caller |-> caller, counts |-> expected_order_counts,
                        file |-> counts_file]
    /\ trigger_out = FALSE
    /\ pc = "save"
    /\ ex_balances \in {CHOOSE b \in InitialBalances : TRUE}
    /\ market = InitialMarket
    /\ open_orders = EmptyBag
    /\ balances = [a \in Assets |-> 0]
    /\ available_balances = [a \in Assets |-> 0]
    /\ current_prices = [p \in PairSet |-> NoPrice]
    /\ btc_usd_price = 0
    /\ grid_center_prices = [p \in PairSet |-> NoPrice]
    /\ last_reposition_time = [p \in PairSet |-> -1]
    /\ now = 0
    /\ ticks = 0
    /\ events = 0
    /\ grid_log = [p \in PairSet |-> NoGridLog]
    /\ tick_log = [p \in PairSet |-> NoTickLog]
    /\ tick_info = NoTickInfo
    /\ changed = FALSE
    /\ faults = 0
    /\ balance_fault = "none"
    /\ last_nonce = 0

\* what a step of the save leaves alone
SaveRest ==
    <<balances, available_balances, current_prices, btc_usd_price,
      grid_center_prices, last_reposition_time, expected_order_counts,
      open_orders, ex_balances, market, now, ticks, events, grid_log, tick_log,
      tick_info, changed, balance_fault, trigger_in, last_nonce>>

\* makedirs and open(file, 'w'): the file is created or emptied, unless one of
\* the two raises
OpenFile ==
    /\ pc = "save"
    /\ \E raised \in BOOLEAN :
         /\ counts_file' = IF raised THEN counts_file ELSE <<>>
         /\ faults' = IF raised THEN faults + 1 ELSE faults
         /\ pc' = IF raised THEN "returned" ELSE "dump"
         /\ trigger_out' = IF raised THEN AfterSave(TRUE, TRUE) ELSE trigger_out
    /\ UNCHANGED SaveRest

\* json.dump writes the next token, or the write raises; after the last
\* token the file is closed and the caller returns True
JsonDump ==
    /\ pc = "dump"
    /\ \E raised \in BOOLEAN :
         \E text \in {json_dump(expected_order_counts)} :
             /\ counts_file' = IF raised THEN counts_file
                               ELSE Append(counts_file, text[Len(counts_file) + 1])
             /\ faults' = IF raised THEN faults + 1 ELSE faults
             /\ pc' = IF raised \/ counts_file' = text THEN "returned" ELSE "dump"
             /\ trigger_out' = IF raised THEN AfterSave(TRUE, TRUE)
                               ELSE IF counts_file' = text THEN AfterSave(FALSE, TRUE)
                               ELSE trigger_out
    /\ UNCHANGED SaveRest

\* the process ends while the save is running
Crash ==
    /\ pc \in {"save", "dump"}
    /\ pc' = "crashed"
    /\ UNCHANGED <<SaveRest, counts_file, faults, trigger_out>>

\* the next process: __init__ sets the counts to {} and loads the file
Restart ==
    /\ pc = "crashed"
    /\ expected_order_counts' = _load_expected_counts(counts_file)
    /\ pc' = "loaded"
    /\ UNCHANGED <<balances, available_balances, current_prices, btc_usd_price,
                   grid_center_prices, last_reposition_time, counts_file,
                   open_orders, ex_balances, market, now, ticks, events, grid_log,
                   tick_log, tick_info, changed, faults, balance_fault, Aside>>

NextSave ==
    \/ OpenFile
    \/ JsonDump
    \/ Crash
    \/ Restart

SpecSave == InitSave /\ [][NextSave]_vars

\* C35: when the process ends at any point of a save, the file is the
\* complete old record or the complete new record
C35_AtomicPersistence ==
    pc = "crashed" =>
        counts_file \in {trigger_in.file, json_dump(trigger_in.counts)}

\* C36: when the save raised, the counts in memory are what they were when
\* the save was called, whatever the file holds now, and the operation
\* that called the save returns what it returns after a save that worked
C36_SaveFailureTolerated ==
    (pc = "returned" /\ faults > 0) =>
        /\ expected_order_counts = trigger_in.counts
        /\ trigger_out = TRUE

\* a write raised after the file was emptied and partly written
C36_Witness ==
    /\ pc = "returned"
    /\ faults > 0
    /\ Len(counts_file) > 1
    /\ counts_file # trigger_in.file
    /\ counts_file # json_dump(expected_order_counts)

(***************************************************************************)
(* api_call_with_retry and get_nonce on their own.  Nonces and clock       *)
(* readings are in microseconds, a thousandth of the source's unit, and    *)
(* the random draws are the multiples of 1000 at the ends of their ranges. *)
(* trigger_in is the call, trigger_out its locals and what it did so far.  *)
(***************************************************************************)
max_retries == 3

\* get_nonce: last is last_nonce, saved_nonce the content of .last_nonce
get_nonce(last, saved_nonce, current_time, is_docker, container_seed, random_component, jump) ==
    LET loaded == IF last = 0 /\ saved_nonce > 0 THEN saved_nonce ELSE last
        nonce == current_time + (IF is_docker THEN container_seed ELSE 0)
                 + random_component
    IN  IF nonce <= loaded THEN loaded + jump ELSE nonce

\* the seconds slept at the start of an attempt and after a failed one
SleepBefore(attempt) == IF attempt > 0 THEN 2 + attempt * 2 ELSE 0
SleepAfter(outcome, attempt) == IF outcome = "nonce" THEN 3 + attempt * 3 ELSE 2 + attempt

\* a variant that also retries the other API errors
RetriesAnyError(outcome, attempt) == outcome # "ok" /\ attempt < max_retries - 1

\* `continue`: after a nonce error or an exception, unless it was the last attempt
Retries(outcome, attempt) ==
    outcome \in {"nonce", "exception", "lost"} /\ attempt < max_retries - 1

ClockReadings == {1000000000, 1007000000}

InitApi ==
    /\ \E path \in {"AddOrder", "Balance"} :
         \E is_docker \in BOOLEAN :
           \E saved_nonce \in {0, 1100000000} :
             trigger_in = [path |-> path, is_docker |-> is_docker,
                           container_seed |-> IF is_docker THEN 4294967 ELSE 0,
                           saved_nonce |-> saved_nonce]
    /\ trigger_out = [attempt |-> 0, nonces |-> <<>>, outcomes |-> <<>>,
                      delays |-> <<>>, accepted |-> 0, result |-> "pending"]
    /\ last_nonce = 0
    /\ now \in ClockReadings
    /\ pc = "request"
    /\ ex_balances \in {CHOOSE b \in InitialBalances : TRUE}
    /\ market = InitialMarket
    /\ open_orders = EmptyBag
    /\ counts_file = [p \in PairSet |-> NoCounts]
    /\ expected_order_counts = counts_file
    /\ balances = [a \in Assets |-> 0]
    /\ available_balances = [a \in Assets |-> 0]
    /\ current_prices = [p \in PairSet |-> NoPrice]
    /\ btc_usd_price = 0
    /\ grid_center_prices = [p \in PairSet |-> NoPrice]
    /\ last_reposition_time = [p \in PairSet |-> -1]
    /\ ticks = 0
    /\ events = 0
    /\ grid_log = [p \in PairSet |-> NoGridLog]
    /\ tick_log = [p \in PairSet |-> NoTickLog]
    /\ tick_info = NoTickInfo
    /\ changed = FALSE
    /\ faults = 0
    /\ balance_fault = "none"

\* one iteration of the for loop of api_call_with_retry: the sleep, the
\* nonce, the request and what follows its outcome; now is the clock as it
\* was read last.  An attempt ends with a result, an API error that names
\* the nonce, another API error, an exception before the exchange handled
\* the request, or an exception after it did (the answer is lost)
ApiAttempt ==
    /\ pc = "request"
    /\ \E current_time \in ClockReadings :
       \E outcome \in {"ok", "nonce", "error", "exception", "lost"} :
       \E random_component \in (IF trigger_in.is_docker THEN {50, 200} ELSE {1, 99}) :
       \E jump \in (IF trigger_in.is_docker THEN {1000, 5000} ELSE {10, 100}) :
       \E recovery_time \in ClockReadings, recovery_random \in {1000, 5000} :
         LET attempt == trigger_out.attempt
             nonce == get_nonce(last_nonce, trigger_in.saved_nonce, current_time,
                                trigger_in.is_docker, trigger_in.container_seed,
                                random_component, jump)
             recovers == outcome = "nonce" /\ Retries(outcome, attempt)
         IN  /\ last_nonce' = IF recovers THEN recovery_time + recovery_random ELSE nonce
             /\ now' = IF recovers THEN recovery_time ELSE current_time
             /\ trigger_out' =
                  [attempt |-> attempt + 1,
                   nonces |-> Append(trigger_out.nonces, nonce),
                   outcomes |-> Append(trigger_out.outcomes, outcome),
                   delays |-> IF attempt = 0 THEN <<>>
                              ELSE Append(trigger_out.delays,
                                          SleepAfter(trigger_out.outcomes[attempt],
                                                     attempt - 1)
                                          + SleepBefore(attempt)),
                   accepted |-> IF trigger_in.path = "AddOrder" /\ outcome \in {"ok", "lost"}
                                THEN trigger_out.accepted + 1
                                ELSE trigger_out.accepted,
                   result |-> IF Retries(outcome, attempt) THEN "pending"
                              ELSE IF outcome = "ok" THEN "result" ELSE "None"]
             /\ pc' = IF Retries(outcome, attempt) THEN "request" ELSE "returned"
    /\ UNCHANGED <<balances, available_balances, current_prices, btc_usd_price,
                   grid_center_prices, last_reposition_time, expected_order_counts,
                   counts_file, open_orders, ex_balances, market, ticks, events,
                   grid_log, tick_log, tick_info, changed, faults, balance_fault,
                   trigger_in>>

SpecApi == InitApi /\ [][ApiAttempt]_vars

\* the event loop runs the coroutine on: every sleep and request ends
SpecApiFair == SpecApi /\ WF_vars(ApiAttempt)

\* C37: one place_limit_order call opens at most one order on the exchange,
\* and when the call is over the exchange has opened an order for it
\* exactly when the call got a result, which is what the engine counts
C37_OneRequestOneOrder ==
    trigger_in.path = "AddOrder" =>
        /\ trigger_out.accepted <= 1
        /\ pc = "returned" =>
               trigger_out.accepted = (IF trigger_out.result = "result" THEN 1 ELSE 0)

\* what C38 says of every state of a call
BoundedRetry ==
    /\ trigger_out.attempt <= max_retries
    /\ pc = "request" => trigger_out.attempt < max_retries
    /\ Len(trigger_out.nonces) = trigger_out.attempt
    /\ \A i \in 1..(Len(trigger_out.delays) - 1) :
          trigger_out.delays[i] <= trigger_out.delays[i + 1]
    /\ \A i \in 1..(Len(trigger_out.outcomes) - 1) :
          trigger_out.outcomes[i] \in {"nonce", "exception", "lost"}
    /\ pc = "returned" =>
          /\ trigger_out.result = "None" <=>
                 trigger_out.outcomes[trigger_out.attempt] # "ok"
          /\ trigger_out.outcomes[trigger_out.attempt] \in {"nonce", "exception", "lost"}
                 => trigger_out.attempt = max_retries

\* C38: api_call_with_retry makes at most max_retries attempts, each with a
\* nonce of its own get_nonce call; the delay before a retry is never
\* shorter than the delay before the retry before it; an attempt is
\* followed by another only after a nonce error or an exception; the call
\* returns None on any other API error and when the last attempt failed;
\* and it returns
C38_BoundedRetry == []BoundedRetry /\ <>(pc = "returned")

\* all attempts were used: a nonce error, an exception, a nonce error
C38_Witness ==
    /\ pc = "returned"
    /\ trigger_out.outcomes = <<"nonce", "exception", "nonce">>
    /\ trigger_out.delays = <<7, 9>>
    /\ trigger_out.result = "None"

\* C39: every nonce get_nonce returns is greater than every nonce it
\* returned before, also after the recovery from a nonce error
C39_NonceMonotonic ==
    \A i, j \in DOMAIN trigger_out.nonces :
        i < j => trigger_out.nonces[i] < trigger_out.nonces[j]
====
